---- MODULE Spec2Model ----
(***************************************************************************)
(* Model of the fan controller of only-fan-controller                      *)
(* (internal/controller/fan.go): the control loop started by Run, the      *)
(* decision step calculateTarget, the hint/override registry and the       *)
(* calls that reach it from the HTTP layer.                                *)
(*                                                                         *)
(* Time is counted in whole seconds.  The zero time.Time value is 0 and    *)
(* the clock starts at StartTime, so IsZero() is "= ZeroTime".  Every      *)
(* section of the code that runs under fc.mu is one action; what runs      *)
(* outside the lock (sensor reads, the ipmitool command, the store write)  *)
(* is an action of its own, so that the calls of other goroutines          *)
(* interleave exactly where the lock allows it.                            *)
(***************************************************************************)
EXTENDS Integers, Sequences, FiniteSets, TLC

VARIABLES
    cfg,                \* fc.cfg.FanControl and fc.cfg.Monitoring.Interval, fixed at construction
    now,                \* the wall clock, time.Now()
    pc,                 \* position of the goroutine that executes Run
    running,            \* fc.running
    tickPending,        \* ticker.C holds a tick (a channel of capacity 1)
    cycleStart,         \* time at which the cycle in progress was entered (ZeroTime: none)
    cycleNo,            \* number of cycles completed (counted in the ramp scenario only)
    cpuReading,         \* controlLoop local: cpuReading.Max (NoReading outside a cycle)
    gpuReading,         \* controlLoop local: gpuReading.Max
    target,             \* controlLoop local: value returned by calculateTarget
    currentSpeed,       \* fc.currentSpeed
    targetSpeed,        \* fc.targetSpeed
    currentZone,        \* fc.currentZone
    lastCPUReading,     \* fc.lastCPUReading: its Max (NoReading: nil)
    lastGPUReading,     \* fc.lastGPUReading: its Max
    cpuHistory,         \* fc.cpuHistory: sequence of tempPoint
    gpuHistory,         \* fc.gpuHistory
    lastOverThreshold,  \* fc.lastOverThreshold
    hints,              \* fc.hints: source -> hint
    override,           \* fc.override: Nil or <<[speed, expiresAt]>>
    sent,               \* speed argument of the last ipmitool fan command (NoSpeed: none)
    recorded,           \* speed of the last triple handed to store.RecordReading (NoSpeed: none)
    status,             \* the Status last returned by GetStatus (Nil: none)
    demo,               \* main: *demoMode, fixed when the process starts
    stopChan,           \* fc.stopChan: "open" or "closed"
    mainPc,             \* position of main: "serve", "restore" or "exited"
    modeCmd,            \* the last fan-mode command handed to ipmitool ("none", "manual", "auto")
    panicked,           \* the process has died of a run-time panic
    mu,                 \* fc.mu: "free", or "loop" when the goroutine of Run holds it;
                        \* "atomic" where every locked section is taken as one step
    obs                 \* what an observer has noted about the run so far

vars == <<cfg, now, pc, running, tickPending, cycleStart, cycleNo, cpuReading, gpuReading, target,
          currentSpeed, targetSpeed, currentZone, lastOverThreshold, hints, override,
          sent, recorded, lastCPUReading, lastGPUReading, cpuHistory, gpuHistory,
          status, demo, stopChan, mainPc, modeCmd, panicked, mu, obs>>

----------------------------------------------------------------------------
(* Bounds of the model *)

MaxTime == 4
MaxTimeHints == 3
MaxTimeThermal == 3
MaxTimeRamp == 9
MaxCycles == 9
MaxTimeApi == 2
MaxTimeStatus == 2
MaxTimeShare == 2
MaxTimeLoop == 3
MaxTimeGap == 2
MaxTimeStart == 3
MaxTimeLife == 2
MaxTimeBoundary == 2
MaxTimeDisplay == 2
MaxTimeEvict == 3
MaxTimeZone == 2
MaxTimeDefaults == 2
MaxTimeOverride == 3
MaxTimeLock == 2

(* Values that stand for "absent" *)
Nil == <<>>
ZeroTime == 0
StartTime == ZeroTime + 1
NoReading == -1
NoSpeed == -1

(* Inputs of one specification: the values the environment may pass. *)
Inputs(srcs, ints, hintDurs, ovSpeeds, ovDurs, cpuTemps, gpuTemps, maxTime) ==
    [sources |-> srcs, intensities |-> ints, hintDurations |-> hintDurs,
     overrideSpeeds |-> ovSpeeds, overrideDurations |-> ovDurs,
     cpuTemps |-> cpuTemps, gpuTemps |-> gpuTemps, maxTime |-> maxTime]

(* Configurations: a narrow speed range with a short cooldown, and one that
   leaves every optional field at 0 so that the defaults of the code apply.
   With a history retention of 0 seconds trimHistory empties both histories
   in every cycle. *)
CfgTight == [MinSpeed |-> 10, MaxSpeed |-> 80, IdleSpeed |-> 20, CPUThreshold |-> 65,
             GPUThreshold |-> 60, StepSize |-> 10, CooldownDelay |-> 1, Interval |-> 1,
             HistoryRetention |-> 0]
CfgZero == [MinSpeed |-> 5, MaxSpeed |-> 100, IdleSpeed |-> 0, CPUThreshold |-> 0,
            GPUThreshold |-> 0, StepSize |-> 0, CooldownDelay |-> 0, Interval |-> 1,
            HistoryRetention |-> 0]
CfgDefault == [MinSpeed |-> 5, MaxSpeed |-> 100, IdleSpeed |-> 20, CPUThreshold |-> 65,
               GPUThreshold |-> 60, StepSize |-> 10, CooldownDelay |-> 60, Interval |-> 1,
               HistoryRetention |-> 0]

----------------------------------------------------------------------------
(* Helpers of fan.go *)

min(a, b) == IF a < b THEN a ELSE b
max(a, b) == IF a > b THEN a ELSE b

(* time.Time.Before *)
Before(t, u) == t < u
IsZero(t) == t = ZeroTime

----------------------------------------------------------------------------
(* calculateTarget, fan.go:173-285 *)

DefaultIdleSpeed == 20
DefaultCPUThreshold == 65
DefaultGPUThreshold == 60
DefaultStepSize == 10
DefaultCooldown == 60
HotCPU == 80
HotGPU == 85
WarmCPU == 70
WarmGPU == 75
DegreesPerStep == 5

baseSpeed == IF cfg.IdleSpeed = 0 THEN DefaultIdleSpeed ELSE cfg.IdleSpeed

RECURSIVE MaxMinFanSpeed(_, _)
MaxMinFanSpeed(hs, srcs) ==
    IF srcs = {} THEN 0
    ELSE LET s == CHOOSE x \in srcs : TRUE
             rest == MaxMinFanSpeed(hs, srcs \ {s})
         IN IF hs[s].minFanSpeed > rest THEN hs[s].minFanSpeed ELSE rest

hintMinSpeed == MaxMinFanSpeed(hints, DOMAIN hints)

(* cpuThreshold without the default *)
cpuThresholdAsConfigured == cfg.CPUThreshold

(* fan.go:204-211 *)
cpuThreshold == IF cfg.CPUThreshold = 0 THEN DefaultCPUThreshold ELSE cfg.CPUThreshold
gpuThreshold == IF cfg.GPUThreshold = 0 THEN DefaultGPUThreshold ELSE cfg.GPUThreshold

overThreshold(cpuMax, gpuMax) == cpuMax > cpuThreshold \/ gpuMax > gpuThreshold

(* zoneOf with the threshold tested before the warm limits *)
zoneOfActiveFirst(cpuMax, gpuMax) ==
    IF cpuMax > HotCPU \/ gpuMax > HotGPU THEN "hot"
    ELSE IF overThreshold(cpuMax, gpuMax) THEN "active"
    ELSE IF cpuMax > WarmCPU \/ gpuMax > WarmGPU THEN "warm"
    ELSE "idle"

(* fan.go:215-224 *)
zoneOf(cpuMax, gpuMax) ==
    IF cpuMax > HotCPU \/ gpuMax > HotGPU THEN "hot"
    ELSE IF cpuMax > WarmCPU \/ gpuMax > WarmGPU THEN "warm"
    ELSE IF overThreshold(cpuMax, gpuMax) THEN "active"
    ELSE "idle"

stepSize == IF cfg.StepSize = 0 THEN DefaultStepSize ELSE cfg.StepSize

(* neededSpeed without the first step *)
neededSpeedNoFirstStep(cpuMax, gpuMax) ==
    LET maxOver == max(max(0, cpuMax - cpuThreshold), max(0, gpuMax - gpuThreshold))
    IN baseSpeed + ((maxOver \div DegreesPerStep) * stepSize)

neededSpeed(cpuMax, gpuMax) ==
    LET cpuOver == max(0, cpuMax - cpuThreshold)
        gpuOver == max(0, gpuMax - gpuThreshold)
        maxOver == max(cpuOver, gpuOver)
        stepsNeeded == (maxOver \div DegreesPerStep) + 1
    IN baseSpeed + (stepsNeeded * stepSize)

(* rampUp without the one-step cap *)
rampUpDirect(t, cpuMax, gpuMax) ==
    IF neededSpeed(cpuMax, gpuMax) > t THEN neededSpeed(cpuMax, gpuMax) ELSE t

(* the over-threshold branch, fan.go:248-250 *)
rampUp(t, cpuMax, gpuMax) ==
    IF neededSpeed(cpuMax, gpuMax) > t
    THEN min(t + stepSize, neededSpeed(cpuMax, gpuMax))
    ELSE t

cooldownDuration == IF cfg.CooldownDelay = 0 THEN DefaultCooldown ELSE cfg.CooldownDelay

(* rampDown that steps down from the current speed when no over-threshold
   cycle has been decided *)
rampDownFromCurrent(t, last, at) ==
    IF t > baseSpeed
    THEN (IF t - stepSize < baseSpeed THEN baseSpeed ELSE t - stepSize)
    ELSE baseSpeed

(* rampDown that holds a speed below the idle speed once the cooldown is over *)
rampDownOnly(t, last, at) ==
    IF IsZero(last) THEN baseSpeed
    ELSE IF at - last > cooldownDuration
         THEN IF t > baseSpeed
              THEN (IF t - stepSize < baseSpeed THEN baseSpeed ELSE t - stepSize)
              ELSE t
         ELSE t

(* the below-threshold branch, fan.go:258-272 *)
rampDown(t, last, at) ==
    IF IsZero(last) THEN baseSpeed
    ELSE IF at - last > cooldownDuration
         THEN IF t > baseSpeed
              THEN (IF t - stepSize < baseSpeed THEN baseSpeed ELSE t - stepSize)
              ELSE baseSpeed
         ELSE t

(* the target of the threshold logic, before hint floor and clamp *)
thermalTarget(cpuMax, gpuMax) ==
    IF overThreshold(cpuMax, gpuMax)
    THEN rampUp(currentSpeed, cpuMax, gpuMax)
    ELSE rampDown(currentSpeed, lastOverThreshold, now)

(* applyHintFloor with the hint taken as the target instead of as a floor *)
applyHintAsTarget(t, floor) == IF floor > 0 THEN floor ELSE t

(* fan.go:275-278 *)
applyHintFloor(t, floor) == IF floor > t THEN floor ELSE t

(* fan.go:281 *)
clamp(t) == max(cfg.MinSpeed, min(cfg.MaxSpeed, t))

(* calculateTarget with the hint floor applied to the override speed as well *)
calculateTargetFloorOnOverride(cpuMax, gpuMax) ==
    LET t == IF override # Nil
             THEN applyHintFloor(override[1].speed, hintMinSpeed)
             ELSE clamp(applyHintFloor(thermalTarget(cpuMax, gpuMax), hintMinSpeed))
    IN [ret |-> t, zone |-> zoneOf(cpuMax, gpuMax),
        lastOver |-> IF overThreshold(cpuMax, gpuMax) THEN now ELSE lastOverThreshold,
        targetSpeed |-> t]

(* calculateTarget that classifies the zone and notes an over-threshold
   reading before it returns the speed of the override *)
calculateTargetZoneOnOverride(cpuMax, gpuMax) ==
    LET t == IF override # Nil THEN override[1].speed
             ELSE clamp(applyHintFloor(thermalTarget(cpuMax, gpuMax), hintMinSpeed))
    IN [ret |-> t, zone |-> zoneOf(cpuMax, gpuMax),
        lastOver |-> IF overThreshold(cpuMax, gpuMax) THEN now ELSE lastOverThreshold,
        targetSpeed |-> IF override # Nil THEN targetSpeed ELSE t]

(* The result of calculateTarget: the value returned and the fields it leaves
   in the controller. *)
calculateTarget(cpuMax, gpuMax) ==
    IF override # Nil
    THEN [ret |-> override[1].speed, zone |-> currentZone,
          lastOver |-> lastOverThreshold, targetSpeed |-> targetSpeed]
    ELSE LET t == clamp(applyHintFloor(thermalTarget(cpuMax, gpuMax), hintMinSpeed))
         IN [ret |-> t, zone |-> zoneOf(cpuMax, gpuMax),
             lastOver |-> IF overThreshold(cpuMax, gpuMax) THEN now
                          ELSE lastOverThreshold,
             targetSpeed |-> t]

----------------------------------------------------------------------------
(* cleanExpired, fan.go:337-349 *)

hintExpired(h) == ~IsZero(h.expiresAt) /\ Before(h.expiresAt, now)

(* cleanExpiredHints that drops a hint from the instant of its expiry on *)
cleanExpiredHintsAtExpiry ==
    LET keep == {s \in DOMAIN hints :
                    IsZero(hints[s].expiresAt) \/ Before(now, hints[s].expiresAt)}
    IN [s \in keep |-> hints[s]]

(* cleanExpiredHints that keeps a hint for one second past its expiry *)
cleanExpiredHintsLate ==
    LET keep == {s \in DOMAIN hints :
                    IsZero(hints[s].expiresAt) \/ ~Before(hints[s].expiresAt + 1, now)}
    IN [s \in keep |-> hints[s]]

cleanExpiredHints ==
    LET keep == {s \in DOMAIN hints : ~hintExpired(hints[s])}
    IN [s \in keep |-> hints[s]]

(* cleanExpiredOverride without the IsZero test *)
cleanExpiredOverrideNoZeroTest ==
    IF override # Nil /\ Before(override[1].expiresAt, now) THEN Nil ELSE override

cleanExpiredOverride ==
    IF override # Nil /\ ~IsZero(override[1].expiresAt)
       /\ Before(override[1].expiresAt, now)
    THEN Nil ELSE override

----------------------------------------------------------------------------
(* History, fan.go:146-152 and 317-335 *)

tempPoint(t, at) == [temp |-> t, timestamp |-> at]

(* trimHistory that keeps the points at the cutoff as well *)
trimHistoryInclusive(history) ==
    LET cutoff == now - cfg.HistoryRetention
    IN SelectSeq(history, LAMBDA p : p.timestamp >= cutoff)

(* trimHistory keeps the points whose timestamp is after the cutoff *)
trimHistory(history) ==
    LET cutoff == now - cfg.HistoryRetention
    IN SelectSeq(history, LAMBDA p : p.timestamp > cutoff)

(* the append of controlLoop followed by trimHistory *)
appendHistory(history, t) == trimHistory(Append(history, tempPoint(t, now)))

----------------------------------------------------------------------------
(* AddHint, fan.go:415-435 *)

HighFloor == 45
MediumFloor == 25
LowFloor == 15
OtherFloor == 25

(* minFanSpeedOf with the floors of the README *)
minFanSpeedOfReadme(intensity) ==
    CASE intensity = "high" -> 45
      [] intensity = "medium" -> 35
      [] intensity = "low" -> 25
      [] OTHER -> 25

minFanSpeedOf(intensity) ==
    CASE intensity = "high" -> HighFloor
      [] intensity = "medium" -> MediumFloor
      [] intensity = "low" -> LowFloor
      [] OTHER -> OtherFloor

(* handleHint, server.go:135-137: the expiry of a hint with a duration estimate *)
hintExpiry(durationEstimate) ==
    IF durationEstimate > 0 THEN now + durationEstimate ELSE ZeroTime

(* the hint that AddHint stores, fan.go:420-431 *)
newHint(source, intensity, durationEstimate) ==
    [source |-> source, intensity |-> intensity, minFanSpeed |-> minFanSpeedOf(intensity),
     expiresAt |-> hintExpiry(durationEstimate)]

(* addHint that keeps the registered hint of the source when its floor is higher *)
addHintKeepHigher(hs, source, intensity, durationEstimate) ==
    IF source \in DOMAIN hs /\ hs[source].minFanSpeed > minFanSpeedOf(intensity)
    THEN hs
    ELSE (source :> newHint(source, intensity, durationEstimate)) @@ hs

(* fc.hints[hint.Source] = hint, fan.go:432 *)
addHint(hs, source, intensity, durationEstimate) ==
    (source :> newHint(source, intensity, durationEstimate)) @@ hs

(* removeHint that deletes nothing *)
removeHintNothing(hs, source) == hs

(* delete(fc.hints, source), fan.go:441 *)
removeHint(hs, source) == [s \in DOMAIN hs \ {source} |-> hs[s]]

(* SetOverride, fan.go:456-458 *)
overrideExpiry(duration) == IF duration > 0 THEN now + duration ELSE ZeroTime

(* newOverride that keeps the expiry of the override in place when the
   duration gives none *)
newOverrideKeepExpiry(speed, duration, reason) ==
    [speed |-> speed, reason |-> reason, createdAt |-> now,
     expiresAt |-> IF duration > 0 THEN now + duration
                   ELSE IF override # Nil THEN override[1].expiresAt ELSE ZeroTime]

(* the Override that SetOverride stores, fan.go:450-458 *)
newOverride(speed, duration, reason) ==
    [speed |-> speed, reason |-> reason, createdAt |-> now,
     expiresAt |-> overrideExpiry(duration)]

----------------------------------------------------------------------------
(* handleOverride, server.go:35-39 and 151-171 *)

StatusOK == 200
StatusBadRequest == 400
MinRequestSpeed == 0
MaxRequestSpeed == 100

(* binding:"required" on an int field, server.go:36: the validator rejects the
   zero value, which is also what a body without the field decodes to *)
bindingRequired(v) == v # 0

(* The status code that handleOverride answers with; SetOverride is called
   when it is StatusOK. *)
handleOverride(speed) ==
    IF ~bindingRequired(speed) THEN StatusBadRequest
    ELSE IF speed < MinRequestSpeed \/ speed > MaxRequestSpeed THEN StatusBadRequest
    ELSE StatusOK

----------------------------------------------------------------------------
(* GetStatus, fan.go:472-515 *)

TrendWindow == 60
MinTrendSpan == 6
StatusCPUDefault == 65
StatusGPUDefault == 60

(* A slope in degrees per minute, as a fraction *)
slope(num, den) == [num |-> num, den |-> den]

(* calculateTrend whose slope is in degrees per second *)
calculateTrendPerSecond(history) ==
    IF Len(history) < 2 THEN slope(0, 1)
    ELSE LET recent == SelectSeq(history, LAMBDA p : p.timestamp > now - TrendWindow)
         IN IF Len(recent) < 2 THEN slope(0, 1)
            ELSE LET first == recent[1]
                     last == recent[Len(recent)]
                     duration == last.timestamp - first.timestamp
                 IN IF duration < MinTrendSpan THEN slope(0, 1)
                    ELSE slope(last.temp - first.temp, duration)

(* calculateTrend, fan.go:287-315: a span under 0.1 minutes is one under
   MinTrendSpan seconds *)
calculateTrend(history) ==
    IF Len(history) < 2 THEN slope(0, 1)
    ELSE LET recent == SelectSeq(history, LAMBDA p : p.timestamp > now - TrendWindow)
         IN IF Len(recent) < 2 THEN slope(0, 1)
            ELSE LET first == recent[1]
                     last == recent[Len(recent)]
                     duration == last.timestamp - first.timestamp
                 IN IF duration < MinTrendSpan THEN slope(0, 1)
                    ELSE slope((last.temp - first.temp) * 60, duration)

(* modeOf with the hints tested before the override *)
modeOfHintsFirst(ov, hs) ==
    IF DOMAIN hs # {} THEN "hinted" ELSE IF ov # Nil THEN "override" ELSE "auto"

(* fan.go:481-486 *)
modeOf(ov, hs) ==
    IF ov # Nil THEN "override" ELSE IF DOMAIN hs # {} THEN "hinted" ELSE "auto"

(* fan.go:489-496 *)
statusCPUThreshold == IF cfg.CPUThreshold = 0 THEN StatusCPUDefault ELSE cfg.CPUThreshold
statusGPUThreshold == IF cfg.GPUThreshold = 0 THEN StatusGPUDefault ELSE cfg.GPUThreshold

(* The Status that GetStatus returns, fan.go:498-514.  CPU, GPU, the elements
   of ActiveHints and Override are pointers to the objects the controller
   holds: sharedReadings, sharedHints and sharedOverride name those of them
   that the controller still holds, and written tells that the holder of the
   Status has written through one of them. *)
newStatus ==
    [timestamp |-> now,
     cpu |-> lastCPUReading,
     gpu |-> lastGPUReading,
     currentSpeed |-> currentSpeed,
     targetSpeed |-> targetSpeed,
     zone |-> currentZone,
     mode |-> modeOf(override, hints),
     activeHints |-> hints,
     override |-> override,
     cpuTrend |-> calculateTrend(cpuHistory),
     gpuTrend |-> calculateTrend(gpuHistory),
     cpuThreshold |-> statusCPUThreshold,
     gpuThreshold |-> statusGPUThreshold,
     idleSpeed |-> cfg.IdleSpeed,
     sharedReadings |-> TRUE,
     sharedHints |-> DOMAIN hints,
     sharedOverride |-> override # Nil,
     written |-> FALSE]

(* The Status held by a caller once the controller has dropped or replaced
   the hints of `sources`, the override (`ov`) or the readings (`rd`): the
   objects stay with the Status and are no longer the controller's. *)
released(sources, ov, rd) ==
    IF status = Nil THEN Nil
    ELSE <<[status[1] EXCEPT !.sharedHints = @ \ sources,
                             !.sharedOverride = @ /\ ~ov,
                             !.sharedReadings = @ /\ ~rd]>>

----------------------------------------------------------------------------
(* State after NewFanController, fan.go:82-93 (NewMockFanController in demo
   mode), with main at the point where it waits for a signal. *)

InitLocking(configs, notes, modes, lock) ==
    /\ cfg \in configs
    /\ demo \in modes
    /\ mu = lock
    /\ stopChan = "open"
    /\ mainPc = "serve"
    /\ modeCmd = "none"
    /\ panicked = FALSE
    /\ now = StartTime
    /\ pc = "new"
    /\ running = FALSE
    /\ tickPending = FALSE
    /\ cycleStart = ZeroTime
    /\ cycleNo = 0
    /\ cpuReading = NoReading
    /\ gpuReading = NoReading
    /\ target = NoSpeed
    /\ currentSpeed = 0
    /\ targetSpeed = 0
    /\ currentZone = ""
    /\ lastOverThreshold = ZeroTime
    /\ hints = <<>>
    /\ override = Nil
    /\ sent = NoSpeed
    /\ recorded = NoSpeed
    /\ lastCPUReading = NoReading
    /\ lastGPUReading = NoReading
    /\ cpuHistory = <<>>
    /\ gpuHistory = <<>>
    /\ status = Nil
    /\ obs = notes

(* Every locked section is one step. *)
InitProgram(configs, notes, modes) == InitLocking(configs, notes, modes, "atomic")

(* The live controller *)
InitObserving(configs, notes) == InitProgram(configs, notes, {FALSE})

(* No note is kept. *)
NoNotes == <<>>

InitWith(configs) == InitObserving(configs, NoNotes)

loopVars == <<pc, running, tickPending, cycleStart, cycleNo, cpuReading, gpuReading, target>>
fanVars == <<currentSpeed, targetSpeed, currentZone, lastOverThreshold>>
outVars == <<sent, recorded>>
readVars == <<lastCPUReading, lastGPUReading, cpuHistory, gpuHistory>>
mainVars == <<demo, stopChan, mainPc, modeCmd, panicked>>

(* fc.mu: a locked section of the loop is entered with the lock held (or as
   one step) and ends with Unlock; a caller of the API gets the lock when the
   loop does not hold it. *)
unlock == IF mu = "loop" THEN "free" ELSE mu

(* The process runs until main returns or a goroutine panics. *)
alive == mainPc # "exited" /\ ~panicked

----------------------------------------------------------------------------
(* Notes of an observer.  obs is a record; a specification keeps the notes
   that its initial state names and no others, and no action reads a note to
   decide what the controller does.

   lastAdd: the last AddHint call, as long as nothing but the RemoveHint of
   the same source and the decision that follows has touched the hints since:
   the source and the intensity passed, the hints registered before the call (less those a cycle has
   evicted since), and how far the sequence AddHint, RemoveHint, decision has
   come.

   settled: the readings, zone and speeds of the controller as they stood
   when it was constructed or when a cycle last finished updating them
   (setFanSpeed, fan.go:352-354).
   taken: the value of settled when GetStatus last returned.
   seen: the hints registered when the cycle in progress left its first
   locked section (fan.go:156), until that cycle has stored its speed.
   started: the number of cycles entered.
   calls: the number of ipmitool fan commands of the cycle last entered.
   actuatorErr, storeErr: whether the last fan command, the last store write
   failed.
   prevErr: actuatorErr as it stood when the cycle last entered began.
   enableErr: whether enableManualMode failed.
   response: the last request to POST /api/override and the status code of
   the answer.
   evictions: the number of calls of cleanExpired in the cycle last entered.
   evicted: the sources whose hints the last call of cleanExpired removed.
   lastSet: the arguments of the last SetOverride call and the override it
   found. *)

Note(o, f, v) == IF f \in DOMAIN o THEN [o EXCEPT ![f] = v] ELSE o
Noted(f) == f \in DOMAIN obs
notedOr(f, default) == IF f \in DOMAIN obs THEN obs[f] ELSE default
seen == notedOr("seen", Nil)
started == notedOr("started", 0)
calls == notedOr("calls", 0)
actuatorErr == notedOr("actuatorErr", FALSE)
storeErr == notedOr("storeErr", FALSE)
prevErr == notedOr("prevErr", FALSE)
enableErr == notedOr("enableErr", FALSE)
response == notedOr("response", Nil)
evictions == notedOr("evictions", 0)
evicted == notedOr("evicted", {})
lastSet == notedOr("lastSet", Nil)

noteCycleStart ==
    Note(Note(Note(Note(obs, "started", started + 1), "calls", 0),
              "prevErr", actuatorErr),
         "evictions", 0)
lastAdd == IF Noted("lastAdd") THEN obs.lastAdd ELSE Nil

view(cpu, gpu, zone, tgt, cur) ==
    [cpu |-> cpu, gpu |-> gpu, zone |-> zone, targetSpeed |-> tgt, currentSpeed |-> cur]

noteAdd(source, intensity) ==
    <<[source |-> source, intensity |-> intensity, before |-> hints, stage |-> "added"]>>

noteRemove(source) ==
    IF lastAdd # Nil /\ lastAdd[1].stage = "added" /\ lastAdd[1].source = source
    THEN <<[lastAdd[1] EXCEPT !.stage = "removed"]>>
    ELSE Nil

noteEviction ==
    IF lastAdd # Nil /\ lastAdd[1].stage = "removed"
    THEN LET b == lastAdd[1].before
             keep == {s \in DOMAIN b : ~hintExpired(b[s])}
         IN <<[lastAdd[1] EXCEPT !.before = [s \in keep |-> b[s]]]>>
    ELSE Nil

noteDecision ==
    IF lastAdd # Nil /\ lastAdd[1].stage = "removed"
    THEN <<[lastAdd[1] EXCEPT !.stage = "decided"]>>
    ELSE Nil

----------------------------------------------------------------------------
(* time.NewTicker, fan.go:105: the ticker exists once Run has passed
   enableManualMode; it delivers into a channel of capacity 1, so a tick that
   finds the channel full is dropped. *)
tickerOn == pc \notin {"new", "enable"}

(* The clock advances by one second; a running ticker whose period has elapsed
   delivers a tick. *)
Tick(limit) ==
    /\ now < limit
    /\ now' = now + 1
    /\ tickPending' = (tickPending \/ (tickerOn /\ (now' - StartTime) % cfg.Interval = 0))
    /\ UNCHANGED <<cfg, pc, running, cycleStart, cycleNo, cpuReading, gpuReading, target,
                   fanVars, hints, override, outVars, readVars, status, obs>>
    /\ UNCHANGED mainVars
    /\ UNCHANGED mu

(* Run, fan.go:95-98.  The Run of the mock (part_001:37-49) issues no
   command and enters its first cycle at once. *)
Run ==
    /\ mu # "free"
    /\ alive
    /\ pc = "new"
    /\ running' = TRUE
    /\ pc' = IF demo THEN "readCPU" ELSE "enable"
    /\ cycleStart' = IF demo THEN now ELSE cycleStart
    /\ obs' = IF demo THEN noteCycleStart ELSE obs
    /\ UNCHANGED <<cfg, now, tickPending, cycleNo, cpuReading, gpuReading, target,
                   fanVars, hints, override, outVars, readVars, status>>
    /\ UNCHANGED mainVars
    /\ mu' = unlock

(* EnableManualMode that makes Run return when the command has failed *)
EnableManualModeOrReturn ==
    /\ alive
    /\ pc = "enable"
    /\ modeCmd' = "manual"
    /\ \E ok \in BOOLEAN :
          /\ obs' = IF ok THEN Note(noteCycleStart, "enableErr", FALSE)
                          ELSE Note(obs, "enableErr", TRUE)
          /\ pc' = IF ok THEN "readCPU" ELSE "returned"
          /\ cycleStart' = IF ok THEN now ELSE cycleStart
    /\ UNCHANGED <<cfg, now, running, tickPending, cycleNo, cpuReading, gpuReading, target,
                   fanVars, hints, override, outVars, readVars, status>>
    /\ UNCHANGED <<demo, stopChan, mainPc, panicked>>
    /\ UNCHANGED mu

(* fc.mu.Lock() in the goroutine of Run: fan.go:96, 142, 174 and 352 *)
Lock ==
    /\ alive
    /\ mu = "free"
    /\ pc \in {"new", "update", "decide", "setSpeed"}
    /\ mu' = "loop"
    /\ UNCHANGED <<cfg, now, loopVars, fanVars, hints, override, outVars, readVars, status, obs>>
    /\ UNCHANGED mainVars

(* Run, fan.go:100-109: enableManualMode succeeds or fails (a failure is only
   logged), then the first cycle is entered at once. *)
EnableManualMode ==
    /\ alive
    /\ pc = "enable"
    /\ \E ok \in BOOLEAN : obs' = Note(noteCycleStart, "enableErr", ~ok)
    /\ modeCmd' = "manual"
    /\ pc' = "readCPU"
    /\ cycleStart' = now
    /\ UNCHANGED <<cfg, now, running, tickPending, cycleNo, cpuReading, gpuReading, target,
                   fanVars, hints, override, outVars, readVars, status>>
    /\ UNCHANGED <<demo, stopChan, mainPc, panicked>>
    /\ UNCHANGED mu

(* TickerFires that enters a cycle at every tick, whether the cycle before
   has returned or not *)
TickerFiresAnytime ==
    /\ alive
    /\ pc \notin {"new", "enable"}
    /\ tickPending
    /\ tickPending' = FALSE
    /\ pc' = "readCPU"
    /\ cycleStart' = now
    /\ obs' = noteCycleStart
    /\ UNCHANGED <<cfg, now, running, cycleNo, cpuReading, gpuReading, target,
                   fanVars, hints, override, outVars, readVars, status>>
    /\ UNCHANGED mainVars
    /\ UNCHANGED mu

(* Run, fan.go:113-114: the ticker fires and the next cycle is entered. *)
TickerFires ==
    /\ alive
    /\ pc = "wait"
    /\ tickPending
    /\ tickPending' = FALSE
    /\ pc' = "readCPU"
    /\ cycleStart' = now
    /\ obs' = noteCycleStart
    /\ UNCHANGED <<cfg, now, running, cycleNo, cpuReading, gpuReading, target,
                   fanVars, hints, override, outVars, readVars, status>>
    /\ UNCHANGED mainVars
    /\ UNCHANGED mu

(* ReadCPU that gives the cycle up when the read fails *)
ReadCPUOrReturn(temps, outcomes) ==
    /\ alive
    /\ pc = "readCPU"
    /\ \E ok \in outcomes : \E t \in temps :
          /\ cpuReading' = IF ok THEN t ELSE NoReading
          /\ pc' = IF ok THEN "readGPU" ELSE "wait"
          /\ cycleStart' = IF ok THEN cycleStart ELSE ZeroTime
    /\ UNCHANGED <<cfg, now, running, tickPending, cycleNo, gpuReading, target,
                   fanVars, hints, override, outVars, readVars, status, obs>>
    /\ UNCHANGED mainVars
    /\ UNCHANGED mu

(* controlLoop, fan.go:130-134: the read succeeds with a value of `temps`
   or, when `outcomes` holds FALSE, fails; a failed read gives Max 0.  The
   generators of the mock (part_001:66-68) do not fail. *)
ReadCPU(temps, outcomes) ==
    /\ alive
    /\ pc = "readCPU"
    /\ \E ok \in outcomes : \E t \in temps :
          cpuReading' = IF ok \/ demo THEN t ELSE 0
    /\ pc' = "readGPU"
    /\ UNCHANGED <<cfg, now, running, tickPending, cycleStart, cycleNo, gpuReading, target,
                   fanVars, hints, override, outVars, readVars, status, obs>>
    /\ UNCHANGED mainVars
    /\ UNCHANGED mu

(* controlLoop, fan.go:136-140 *)
ReadGPU(temps, outcomes) ==
    /\ alive
    /\ pc = "readGPU"
    /\ \E ok \in outcomes : \E t \in temps :
          gpuReading' = IF ok \/ demo THEN t ELSE 0
    /\ pc' = "update"
    /\ UNCHANGED <<cfg, now, running, tickPending, cycleStart, cycleNo, cpuReading, target,
                   fanVars, hints, override, outVars, readVars, status, obs>>
    /\ UNCHANGED mainVars
    /\ UNCHANGED mu

(* controlLoop, fan.go:142-156: the first locked section *)
UpdateState ==
    /\ mu # "free"
    /\ alive
    /\ pc = "update"
    /\ lastCPUReading' = cpuReading
    /\ lastGPUReading' = gpuReading
    /\ cpuHistory' = appendHistory(cpuHistory, cpuReading)
    /\ gpuHistory' = appendHistory(gpuHistory, gpuReading)
    /\ hints' = cleanExpiredHints
    /\ override' = cleanExpiredOverride
    /\ pc' = "decide"
    /\ status' = released(DOMAIN hints \ DOMAIN cleanExpiredHints,
                          cleanExpiredOverride # override, TRUE)
    /\ obs' = Note(Note(Note(Note(Note(obs, "lastAdd", noteEviction),
                                  "seen", <<cleanExpiredHints>>),
                             "evictions", evictions + 1),
                        "evicted", DOMAIN hints \ DOMAIN cleanExpiredHints),
                   "evictedAt", now)
    /\ UNCHANGED <<cfg, now, running, tickPending, cycleStart, cycleNo, cpuReading, gpuReading,
                   target, fanVars, outVars>>
    /\ UNCHANGED mainVars
    /\ mu' = unlock

(* controlLoop, fan.go:159: calculateTarget under the lock *)
Decide ==
    /\ mu # "free"
    /\ alive
    /\ pc = "decide"
    /\ LET r == calculateTarget(cpuReading, gpuReading)
       IN /\ target' = r.ret
          /\ currentZone' = r.zone
          /\ lastOverThreshold' = r.lastOver
          /\ targetSpeed' = r.targetSpeed
    /\ pc' = "setSpeed"
    /\ obs' = Note(obs, "lastAdd", noteDecision)
    /\ UNCHANGED <<cfg, now, running, tickPending, cycleStart, cycleNo, cpuReading, gpuReading,
                   currentSpeed, hints, override, outVars, readVars, status>>
    /\ UNCHANGED mainVars
    /\ mu' = unlock

(* SetFanSpeedState that unlocks when setFanSpeed returns (defer) *)
SetFanSpeedStateDeferUnlock ==
    /\ mu # "free"
    /\ alive
    /\ pc = "setSpeed"
    /\ currentSpeed' = target
    /\ pc' = IF demo THEN "record" ELSE "ipmi"
    /\ obs' = Note(Note(obs, "settled",
                        view(lastCPUReading, lastGPUReading, currentZone, targetSpeed, target)),
                   "seen", Nil)
    /\ UNCHANGED <<cfg, now, running, tickPending, cycleStart, cycleNo, cpuReading, gpuReading,
                   target, targetSpeed, currentZone, lastOverThreshold, hints,
                   override, outVars, readVars, status>>
    /\ UNCHANGED mainVars
    /\ UNCHANGED mu

(* setFanSpeed, fan.go:351-354; the mock stores the speed and issues no
   command (part_001:84-87) *)
SetFanSpeedState ==
    /\ mu # "free"
    /\ alive
    /\ pc = "setSpeed"
    /\ currentSpeed' = target
    /\ pc' = IF demo THEN "record" ELSE "ipmi"
    /\ obs' = Note(Note(obs, "settled",
                        view(lastCPUReading, lastGPUReading, currentZone, targetSpeed, target)),
                   "seen", Nil)
    /\ UNCHANGED <<cfg, now, running, tickPending, cycleStart, cycleNo, cpuReading, gpuReading,
                   target, targetSpeed, currentZone, lastOverThreshold, hints,
                   override, outVars, readVars, status>>
    /\ UNCHANGED mainVars
    /\ mu' = unlock

(* SetFanSpeedCommand that issues the command again when it has failed *)
SetFanSpeedCommandRetry ==
    /\ alive
    /\ pc = "ipmi"
    /\ \E ok \in BOOLEAN :
          /\ obs' = Note(Note(obs, "calls", calls + 1), "actuatorErr", ~ok)
          /\ pc' = IF ok \/ calls >= 1 THEN "record" ELSE "ipmi"
    /\ sent' = target
    /\ UNCHANGED <<cfg, now, running, tickPending, cycleStart, cycleNo, cpuReading, gpuReading,
                   target, fanVars, hints, override, recorded, readVars, status>>
    /\ UNCHANGED mainVars
    /\ UNCHANGED mu

(* setFanSpeed that takes the speed back when the command has failed *)
SetFanSpeedCommandRollback ==
    /\ alive
    /\ pc = "ipmi"
    /\ \E ok \in BOOLEAN :
          /\ obs' = Note(Note(obs, "calls", calls + 1), "actuatorErr", ~ok)
          /\ currentSpeed' = IF ok THEN currentSpeed ELSE max(sent, 0)
    /\ sent' = target
    /\ pc' = "record"
    /\ UNCHANGED <<cfg, now, running, tickPending, cycleStart, cycleNo, cpuReading, gpuReading,
                   target, targetSpeed, currentZone, lastOverThreshold, hints, override,
                   recorded, readVars, status>>
    /\ UNCHANGED mainVars
    /\ UNCHANGED mu

(* setFanSpeed, fan.go:356-379: the ipmitool command; its failure is logged *)
SetFanSpeedCommand ==
    /\ alive
    /\ pc = "ipmi"
    /\ \E ok \in BOOLEAN :
          obs' = Note(Note(obs, "calls", calls + 1), "actuatorErr", ~ok)
    /\ sent' = target
    /\ pc' = "record"
    /\ UNCHANGED <<cfg, now, running, tickPending, cycleStart, cycleNo, cpuReading, gpuReading,
                   target, fanVars, hints, override, recorded, readVars, status>>
    /\ UNCHANGED mainVars
    /\ UNCHANGED mu

(* controlLoop, fan.go:167-170: the store write succeeds or fails (the error
   is dropped) and the cycle ends *)
RecordReading(count) ==
    /\ alive
    /\ pc = "record"
    /\ \E ok \in BOOLEAN : obs' = Note(obs, "storeErr", ~ok)
    /\ recorded' = target
    /\ cycleNo' = IF count THEN min(cycleNo + 1, MaxCycles) ELSE cycleNo
    /\ pc' = "wait"
    /\ cycleStart' = ZeroTime
    /\ cpuReading' = NoReading
    /\ gpuReading' = NoReading
    /\ target' = NoSpeed
    /\ UNCHANGED <<cfg, now, running, tickPending, fanVars, hints, override, sent,
                   readVars, status>>
    /\ UNCHANGED mainVars
    /\ UNCHANGED mu

(* AddHint, fan.go:415-435, called by handleHint, server.go:128-139 *)
AddHint(source, intensity, durationEstimate) ==
    /\ mu # "loop"
    /\ alive
    /\ hints' = addHint(hints, source, intensity, durationEstimate)
    /\ status' = released({source}, FALSE, FALSE)
    /\ obs' = Note(obs, "lastAdd", noteAdd(source, intensity))
    /\ UNCHANGED <<cfg, now, loopVars, fanVars, override, outVars, readVars>>
    /\ UNCHANGED mainVars
    /\ UNCHANGED mu

(* RemoveHint, fan.go:438-443 *)
RemoveHint(source) ==
    /\ mu # "loop"
    /\ alive
    /\ hints' = removeHint(hints, source)
    /\ status' = released({source}, FALSE, FALSE)
    /\ obs' = Note(obs, "lastAdd", noteRemove(source))
    /\ UNCHANGED <<cfg, now, loopVars, fanVars, override, outVars, readVars>>
    /\ UNCHANGED mainVars
    /\ UNCHANGED mu

(* SetOverride, fan.go:446-461 *)
SetOverride(speed, duration, reason) ==
    /\ mu # "loop"
    /\ alive
    /\ override' = <<newOverride(speed, duration, reason)>>
    /\ status' = released({}, TRUE, FALSE)
    /\ obs' = Note(obs, "lastSet",
                   <<[speed |-> speed, duration |-> duration, reason |-> reason,
                      found |-> override]>>)
    /\ UNCHANGED <<cfg, now, loopVars, fanVars, hints, outVars, readVars>>
    /\ UNCHANGED mainVars
    /\ UNCHANGED mu

(* handleOverride, server.go:151-171: POST /api/override with a body that
   holds speed, duration and reason *)
HandleOverride(speed, duration, reason) ==
    /\ mu # "loop"
    /\ alive
    /\ IF handleOverride(speed) = StatusOK
       THEN /\ override' = <<newOverride(speed, duration, reason)>>
            /\ status' = released({}, TRUE, FALSE)
       ELSE UNCHANGED <<override, status>>
    /\ obs' = Note(obs, "response",
                   <<[speed |-> speed, duration |-> duration, reason |-> reason,
                      code |-> handleOverride(speed)]>>)
    /\ UNCHANGED <<cfg, now, loopVars, fanVars, hints, outVars, readVars>>
    /\ UNCHANGED mainVars
    /\ UNCHANGED mu

(* ClearOverride that also takes the override's speed out of targetSpeed *)
ClearOverrideResetTarget ==
    /\ mu # "loop"
    /\ alive
    /\ override' = Nil
    /\ targetSpeed' = IF override = Nil THEN targetSpeed ELSE cfg.IdleSpeed
    /\ status' = released({}, TRUE, FALSE)
    /\ UNCHANGED <<cfg, now, loopVars, currentSpeed, currentZone, lastOverThreshold, hints,
                   outVars, readVars, obs>>
    /\ UNCHANGED mainVars
    /\ UNCHANGED mu

(* ClearOverride, fan.go:464-469 *)
ClearOverride ==
    /\ mu # "loop"
    /\ alive
    /\ override' = Nil
    /\ status' = released({}, TRUE, FALSE)
    /\ UNCHANGED <<cfg, now, loopVars, fanVars, hints, outVars, readVars, obs>>
    /\ UNCHANGED mainVars
    /\ UNCHANGED mu

(* GetStatus, fan.go:472-515, called by handleStatus, server.go:88-91 *)
GetStatus ==
    /\ mu # "loop"
    /\ alive
    /\ status' = <<newStatus>>
    /\ obs' = Note(obs, "taken", IF Noted("settled") THEN obs.settled ELSE Nil)
    /\ UNCHANGED <<cfg, now, loopVars, fanVars, hints, override, outVars, readVars>>
    /\ UNCHANGED mainVars
    /\ UNCHANGED mu

(* The holder of a Status writes through one of its pointers, once: the
   MinFanSpeed of a hint, the Speed of the override or the Max of the CPU
   reading.  An object that the controller still holds is the same object, so
   the controller sees the value too; a CPU reading that is still the
   controller's is also the reading of the cycle in progress, if that cycle
   has stored it (fan.go:143). *)
WriteThroughStatus(v) ==
    /\ alive
    /\ status # Nil
    /\ ~status[1].written
    /\ \/ \E s \in DOMAIN status[1].activeHints :
             /\ status' = <<[status[1] EXCEPT !.activeHints[s].minFanSpeed = v,
                                              !.written = TRUE]>>
             /\ hints' = IF s \in status[1].sharedHints
                         THEN [hints EXCEPT ![s].minFanSpeed = v] ELSE hints
             /\ UNCHANGED <<override, lastCPUReading, cpuReading>>
       \/ /\ status[1].override # Nil
          /\ status' = <<[status[1] EXCEPT !.override[1].speed = v, !.written = TRUE]>>
          /\ override' = IF status[1].sharedOverride
                         THEN <<[override[1] EXCEPT !.speed = v]>> ELSE override
          /\ UNCHANGED <<hints, lastCPUReading, cpuReading>>
       \/ /\ status[1].cpu # NoReading
          /\ status' = <<[status[1] EXCEPT !.cpu = v, !.written = TRUE]>>
          /\ lastCPUReading' = IF status[1].sharedReadings THEN v ELSE lastCPUReading
          /\ cpuReading' = IF status[1].sharedReadings /\ pc \in {"decide", "setSpeed", "ipmi", "record"}
                           THEN v ELSE cpuReading
          /\ UNCHANGED <<hints, override>>
    /\ UNCHANGED <<cfg, now, pc, running, tickPending, cycleStart, cycleNo, gpuReading, target,
                   fanVars, outVars, lastGPUReading, cpuHistory, gpuHistory, obs>>
    /\ UNCHANGED mainVars
    /\ UNCHANGED mu

(* Run, fan.go:115-116: the loop receives from the closed stopChan and Run
   returns.  When a tick is pending as well, select takes either case. *)
RunReturns ==
    /\ alive
    /\ pc = "wait"
    /\ stopChan = "closed"
    /\ pc' = "returned"
    /\ UNCHANGED <<cfg, now, running, tickPending, cycleStart, cycleNo, cpuReading, gpuReading,
                   target, fanVars, hints, override, outVars, readVars, status, obs>>
    /\ UNCHANGED mainVars
    /\ UNCHANGED mu

(* Stop, fan.go:121-126.  close of a closed channel panics, after running has
   been cleared.  main calls Stop when the signal arrives (Dockerfile:203-208)
   and goes on to restore; any other caller only calls Stop. *)
Stop(caller) ==
    /\ mu # "loop"
    /\ alive
    /\ caller = "main" => mainPc = "serve"
    /\ running' = FALSE
    /\ IF stopChan = "closed"
       THEN panicked' = TRUE /\ UNCHANGED <<stopChan, mainPc>>
       ELSE /\ stopChan' = "closed"
            /\ mainPc' = IF caller = "main" THEN "restore" ELSE mainPc
            /\ UNCHANGED panicked
    /\ UNCHANGED <<cfg, now, pc, tickPending, cycleStart, cycleNo, cpuReading, gpuReading,
                   target, fanVars, hints, override, outVars, readVars, status, obs,
                   demo, modeCmd>>
    /\ UNCHANGED mu

(* MainRestore that issues the command in demo mode as well *)
MainRestoreAlways ==
    /\ alive
    /\ mainPc = "restore"
    /\ modeCmd' = "auto"
    /\ mainPc' = "exited"
    /\ UNCHANGED <<cfg, now, loopVars, fanVars, hints, override, outVars, readVars, status,
                   obs, demo, stopChan, panicked>>
    /\ UNCHANGED mu

(* main, Dockerfile:210-217: RestoreAutoMode (fan.go:398-412) unless in demo
   mode; its failure is logged; then main returns and the process ends. *)
MainRestore ==
    /\ alive
    /\ mainPc = "restore"
    /\ \E ok \in BOOLEAN : TRUE
    /\ modeCmd' = IF demo THEN modeCmd ELSE "auto"
    /\ mainPc' = "exited"
    /\ UNCHANGED <<cfg, now, loopVars, fanVars, hints, override, outVars, readVars, status,
                   obs, demo, stopChan, panicked>>
    /\ UNCHANGED mu

(* One step of the controller or of its environment, with the inputs `in`. *)
NextWith(in) ==
    \/ Tick(in.maxTime)
    \/ Run
    \/ EnableManualMode
    \/ TickerFires
    \/ ReadCPU(in.cpuTemps, BOOLEAN)
    \/ ReadGPU(in.gpuTemps, BOOLEAN)
    \/ UpdateState
    \/ Decide
    \/ SetFanSpeedState
    \/ SetFanSpeedCommand
    \/ RecordReading(FALSE)
    \/ \E s \in in.sources, i \in in.intensities, d \in in.hintDurations : AddHint(s, i, d)
    \/ \E s \in in.sources : RemoveHint(s)
    \/ \E sp \in in.overrideSpeeds, d \in in.overrideDurations : SetOverride(sp, d, "manual")
    \/ ClearOverride

----------------------------------------------------------------------------
(* Spec: overrides in full (a speed below MinSpeed, one above MaxSpeed, with
   and without expiry), one hint source. *)
MainInputs ==
    Inputs({"a"}, {"high"}, {0, 1}, {5, 100}, {-1, 0, 1}, {40, 90}, {35}, MaxTime)
Init == InitWith({CfgTight})
Next == NextWith(MainInputs)
Spec == Init /\ [][Next]_vars

(* SpecHints: two hint sources and every intensity; hints are removed by
   RemoveHint or replaced by AddHint (expiring hints are in Spec). *)
HintInputs ==
    Inputs({"a", "b"}, {"high", "medium", "low", "extreme"}, {0}, {50}, {0},
           {40, 90}, {35}, MaxTimeHints)
InitHints == InitWith({CfgTight})
NextHints == NextWith(HintInputs)
SpecHints == InitHints /\ [][NextHints]_vars

(* SpecThermal: the threshold logic in full (both configurations, readings
   of every zone for both sensors), one hint and one override. *)
ThermalInputs ==
    Inputs({"a"}, {"high"}, {0}, {50}, {0}, {40, 66, 72, 90}, {35, 61, 76, 86},
           MaxTimeThermal)
InitThermal == InitWith({CfgTight, CfgZero})
NextThermal == NextWith(ThermalInputs)
SpecThermal == InitThermal /\ [][NextThermal]_vars

(* SpecRamp: the end-to-end scenario of a sustained CPU reading of 90 under
   the default configuration.  The first cycle reads an idle temperature and
   brings the speed to idle; every later cycle reads 90 (the CPU read does not
   fail).  No hint, no override. *)
rampCPU == IF cycleNo = 0 THEN {40} ELSE {90}
InitRamp == InitWith({CfgDefault})
NextRamp ==
    \/ Tick(MaxTimeRamp)
    \/ Run
    \/ EnableManualMode
    \/ TickerFires
    \/ ReadCPU(rampCPU, {TRUE})
    \/ ReadGPU({35}, BOOLEAN)
    \/ UpdateState
    \/ Decide
    \/ SetFanSpeedState
    \/ SetFanSpeedCommand
    \/ RecordReading(TRUE)
SpecRamp == InitRamp /\ [][NextRamp]_vars

(* SpecApi: the calls of the HTTP layer observed: two hint sources, a high
   and a low intensity, hints without expiry (expiring hints are in Spec). *)
ApiInputs ==
    Inputs({"a", "b"}, {"high", "low"}, {0}, {50}, {0}, {40, 90}, {35}, MaxTimeApi)
ApiNotes == [lastAdd |-> Nil]
InitApi == InitObserving({CfgTight}, ApiNotes)
NextApi == NextWith(ApiInputs)
SpecApi == InitApi /\ [][NextApi]_vars

(* SpecGap: the calls of the HTTP layer between the locked sections of a
   cycle: one hint source, a high and a low intensity. *)
GapInputs == Inputs({"a"}, {"high", "low"}, {0}, {50}, {0}, {40, 90}, {35}, MaxTimeGap)
GapNotes == [seen |-> Nil]
InitGap == InitObserving({CfgTight}, GapNotes)
NextGap == NextWith(GapInputs)
SpecGap == InitGap /\ [][NextGap]_vars

(* SpecStatus: GetStatus at every point of the loop and between the calls of
   the API. *)
StatusInputs == Inputs({"a"}, {"high"}, {0}, {50}, {0}, {90}, {35}, MaxTimeStatus)
StatusNotes ==
    [settled |-> view(NoReading, NoReading, "", 0, 0),
     taken |-> view(NoReading, NoReading, "", 0, 0)]
InitStatus == InitObserving({CfgTight}, StatusNotes)
NextStatus ==
    \/ NextWith(StatusInputs)
    \/ GetStatus
SpecStatus == InitStatus /\ [][NextStatus]_vars

(* SpecShare: a holder of the Status writes through it.  The sensor reads
   succeed; one hint and one override. *)
InitShare == InitWith({CfgTight})
NextShare ==
    \/ Tick(MaxTimeShare)
    \/ Run
    \/ EnableManualMode
    \/ TickerFires
    \/ ReadCPU({90}, {TRUE})
    \/ ReadGPU({35}, {TRUE})
    \/ UpdateState
    \/ Decide
    \/ SetFanSpeedState
    \/ SetFanSpeedCommand
    \/ RecordReading(FALSE)
    \/ AddHint("a", "high", 0)
    \/ RemoveHint("a")
    \/ SetOverride(50, 0, "manual")
    \/ ClearOverride
    \/ GetStatus
    \/ WriteThroughStatus(0)
SpecShare == InitShare /\ [][NextShare]_vars

(* SpecLoop: the loop alone, with sensor reads, fan commands and store
   writes that fail, a fan command slower than the ticker, and a history that
   is retained.  The goroutine of Run is scheduled and its external calls
   return: a pending tick is received and every step of a cycle in progress
   is taken eventually. *)
CfgLoop == [CfgTight EXCEPT !.HistoryRetention = 2]
LoopNotes ==
    [started |-> 0, calls |-> 0, actuatorErr |-> FALSE, storeErr |-> FALSE, prevErr |-> FALSE]
InitLoop == InitObserving({CfgLoop}, LoopNotes)
NextLoop ==
    \/ Tick(MaxTimeLoop)
    \/ Run
    \/ EnableManualMode
    \/ TickerFires
    \/ ReadCPU({40, 90}, BOOLEAN)
    \/ ReadGPU({35}, BOOLEAN)
    \/ UpdateState
    \/ Decide
    \/ SetFanSpeedState
    \/ SetFanSpeedCommand
    \/ RecordReading(TRUE)
LoopStep ==
    \/ TickerFires
    \/ ReadCPU({40, 90}, BOOLEAN)
    \/ ReadGPU({35}, BOOLEAN)
    \/ UpdateState
    \/ Decide
    \/ SetFanSpeedState
    \/ SetFanSpeedCommand
    \/ RecordReading(TRUE)
SpecLoop == InitLoop /\ [][NextLoop]_vars /\ WF_vars(LoopStep)

(* SpecStart: Run from its first statement on, with an enableManualMode that
   succeeds or fails.  The goroutine of Run is scheduled and its external
   calls return. *)
NextStart ==
    \/ Tick(MaxTimeStart)
    \/ Run
    \/ EnableManualMode
    \/ TickerFires
    \/ ReadCPU({40, 90}, BOOLEAN)
    \/ ReadGPU({35}, BOOLEAN)
    \/ UpdateState
    \/ Decide
    \/ SetFanSpeedState
    \/ SetFanSpeedCommand
    \/ RecordReading(TRUE)
StartStep ==
    \/ Run
    \/ EnableManualMode
    \/ LoopStep
SpecStart ==
    /\ InitObserving({CfgTight}, [started |-> 0, enableErr |-> FALSE])
    /\ [][NextStart]_vars
    /\ WF_vars(StartStep)

(* SpecLife: the process from the start of Run to the return of main, live
   and in demo mode: the loop, the signal that makes main call Stop, and the
   restore.  main is scheduled once the signal has arrived. *)
InitLife == InitProgram({CfgTight}, NoNotes, BOOLEAN)
NextLife ==
    \/ Tick(MaxTimeLife)
    \/ Run
    \/ EnableManualMode
    \/ TickerFires
    \/ ReadCPU({40, 90}, BOOLEAN)
    \/ ReadGPU({35}, BOOLEAN)
    \/ UpdateState
    \/ Decide
    \/ SetFanSpeedState
    \/ SetFanSpeedCommand
    \/ RecordReading(FALSE)
    \/ RunReturns
    \/ Stop("main")
    \/ MainRestore
SpecLife == InitLife /\ [][NextLife]_vars /\ WF_vars(MainRestore)

(* SpecStop: SpecLife with callers of Stop other than main. *)
NextStop ==
    \/ NextLife
    \/ Stop("other")
SpecStop == InitLife /\ [][NextStop]_vars

(* SpecBoundary: requests to POST /api/override with speeds inside, on and
   outside the limits, next to the loop. *)
BoundarySpeeds == {-1, 0, 1, 100, 101}
NextBoundary ==
    \/ Tick(MaxTimeBoundary)
    \/ Run
    \/ EnableManualMode
    \/ TickerFires
    \/ ReadCPU({90}, {TRUE})
    \/ ReadGPU({35}, {TRUE})
    \/ UpdateState
    \/ Decide
    \/ SetFanSpeedState
    \/ SetFanSpeedCommand
    \/ RecordReading(FALSE)
    \/ \E sp \in BoundarySpeeds, d \in {0, 1} : HandleOverride(sp, d, "manual")
    \/ ClearOverride
SpecBoundary == InitObserving({CfgTight}, [response |-> Nil]) /\ [][NextBoundary]_vars

(* SpecDisplay: GetStatus under a configuration that names every value and
   under one that leaves thresholds and idle speed at 0. *)
NextDisplay ==
    \/ Tick(MaxTimeDisplay)
    \/ Run
    \/ EnableManualMode
    \/ TickerFires
    \/ ReadCPU({40, 90}, {TRUE})
    \/ ReadGPU({35}, {TRUE})
    \/ UpdateState
    \/ Decide
    \/ SetFanSpeedState
    \/ SetFanSpeedCommand
    \/ RecordReading(FALSE)
    \/ GetStatus
SpecDisplay == InitWith({CfgTight, CfgZero}) /\ [][NextDisplay]_vars

(* SpecEvict: hints and overrides with and without expiry, set before and
   during the cycles in which they expire. *)
EvictInputs == Inputs({"a", "b"}, {"high"}, {0, 1}, {50}, {0, 1}, {40}, {35}, MaxTimeEvict)
NextEvict == NextWith(EvictInputs)
SpecEvict == InitObserving({CfgTight}, [evictions |-> 0, evicted |-> {}]) /\ [][NextEvict]_vars

(* SpecZone: readings of every zone under thresholds below and above the
   warm limits, with and without an override. *)
CfgHigh == [CfgTight EXCEPT !.CPUThreshold = 75, !.GPUThreshold = 80]
NextZone ==
    \/ Tick(MaxTimeZone)
    \/ Run
    \/ EnableManualMode
    \/ TickerFires
    \/ ReadCPU({40, 66, 72, 78, 90}, {TRUE})
    \/ ReadGPU({35, 61, 76, 82, 86}, {TRUE})
    \/ UpdateState
    \/ Decide
    \/ SetFanSpeedState
    \/ SetFanSpeedCommand
    \/ RecordReading(FALSE)
    \/ SetOverride(50, 0, "manual")
    \/ ClearOverride
SpecZone == InitWith({CfgTight, CfgHigh}) /\ [][NextZone]_vars

(* SpecDefaults: thresholds left at 0, both or the GPU's alone, with readings
   at 0, at the default thresholds and one degree above them. *)
CfgGpuZero == [CfgHigh EXCEPT !.GPUThreshold = 0]
NextDefaults ==
    \/ Tick(MaxTimeDefaults)
    \/ Run
    \/ EnableManualMode
    \/ TickerFires
    \/ ReadCPU({65, 66}, BOOLEAN)
    \/ ReadGPU({60, 61}, BOOLEAN)
    \/ UpdateState
    \/ Decide
    \/ SetFanSpeedState
    \/ SetFanSpeedCommand
    \/ RecordReading(FALSE)
SpecDefaults == InitWith({CfgZero, CfgGpuZero}) /\ [][NextDefaults]_vars

(* SpecOverride: SetOverride with two speeds, two reasons and durations
   below, at and above 0, over overrides that are in place. *)
NextOverride ==
    \/ Tick(MaxTimeOverride)
    \/ Run
    \/ EnableManualMode
    \/ TickerFires
    \/ ReadCPU({40}, {TRUE})
    \/ ReadGPU({35}, {TRUE})
    \/ UpdateState
    \/ Decide
    \/ SetFanSpeedState
    \/ SetFanSpeedCommand
    \/ RecordReading(FALSE)
    \/ \E sp \in {30, 50}, d \in {-1, 0, 1}, r \in {"manual", "test"} : SetOverride(sp, d, r)
    \/ ClearOverride
SpecOverride == InitObserving({CfgTight}, [lastSet |-> Nil]) /\ [][NextOverride]_vars

(* SpecLock: the locked sections of the loop in two steps each, the Lock and
   the section up to its Unlock, live and in demo mode, next to calls of the
   API, which wait for the lock. *)
NextLock ==
    \/ Tick(MaxTimeLock)
    \/ Run
    \/ Lock
    \/ EnableManualMode
    \/ TickerFires
    \/ ReadCPU({40, 90}, BOOLEAN)
    \/ ReadGPU({35}, BOOLEAN)
    \/ UpdateState
    \/ Decide
    \/ SetFanSpeedState
    \/ SetFanSpeedCommand
    \/ RecordReading(FALSE)
    \/ AddHint("a", "high", 0)
    \/ SetOverride(50, 0, "manual")
    \/ ClearOverride
    \/ GetStatus
SpecLock == InitLocking({CfgTight}, NoNotes, BOOLEAN, "free") /\ [][NextLock]_vars

(* SpecSnapshot: GetStatus between the expiry of a hint or of the override
   and the cycle that evicts it; the time of the latest cleanExpired is
   noted. *)
MaxTimeSnapshot == 3
NextSnapshot ==
    \/ Tick(MaxTimeSnapshot)
    \/ Run
    \/ EnableManualMode
    \/ TickerFires
    \/ ReadCPU({40}, {TRUE})
    \/ ReadGPU({35}, {TRUE})
    \/ UpdateState
    \/ Decide
    \/ SetFanSpeedState
    \/ SetFanSpeedCommand
    \/ RecordReading(FALSE)
    \/ AddHint("a", "high", 1)
    \/ SetOverride(50, 1, "manual")
    \/ GetStatus
SpecSnapshot == InitObserving({CfgTight}, [evictedAt |-> ZeroTime]) /\ [][NextSnapshot]_vars

(* SpecSettle: readings that come to rest.  The first HotCycles cycles read
   any temperature and hints and overrides are set during them; later cycles
   read at or below the thresholds (a failed read gives 0) and no hint and no
   override is set any more.  A cycle takes less than the interval: the clock
   advances while the loop waits for the ticker, and the goroutine of Run is
   scheduled. *)
HotCycles == 3
MaxTimeSettle == 10
CfgLowIdle == [CfgTight EXCEPT !.IdleSpeed = 5]
settleCPU == IF cycleNo < HotCycles THEN {40, 65, 90} ELSE {40, 65}
TickPrompt(limit) == pc = "wait" /\ ~tickPending /\ Tick(limit)
NextSettle ==
    \/ TickPrompt(MaxTimeSettle)
    \/ Run
    \/ EnableManualMode
    \/ TickerFires
    \/ ReadCPU(settleCPU, BOOLEAN)
    \/ ReadGPU({35}, BOOLEAN)
    \/ UpdateState
    \/ Decide
    \/ SetFanSpeedState
    \/ SetFanSpeedCommand
    \/ RecordReading(TRUE)
    \/ cycleNo < HotCycles /\ AddHint("a", "high", 0)
    \/ RemoveHint("a")
    \/ cycleNo < HotCycles /\ SetOverride(50, 0, "manual")
    \/ ClearOverride
SpecSettle ==
    /\ InitWith({CfgTight, CfgLowIdle})
    /\ [][NextSettle]_vars
    /\ WF_vars(TickPrompt(MaxTimeSettle))
    /\ WF_vars(StartStep)

(* SpecCycle: the loop of SpecLoop, of the live and of the mock controller. *)
SpecCycle == InitProgram({CfgLoop}, LoopNotes, BOOLEAN) /\ [][NextLoop]_vars /\ WF_vars(LoopStep)

(* SpecFrame: the calls of the API and GetStatus around the cycles of a
   controller that retains its history. *)
SpecFrame == InitWith({CfgLoop}) /\ [][NextStatus]_vars

(* SpecTrend: calculateTrend on the histories a controller with the default
   retention can hold a minute after its start: up to MaxTrendLen samples,
   taken at the start, one second later, and 30, 6, 5 and 0 seconds ago. *)
MaxTrendLen == 3
CfgTrend == [CfgDefault EXCEPT !.HistoryRetention = 3600]
TrendTimes == {StartTime, StartTime + 1, StartTime + 30, StartTime + 54, StartTime + 55,
               StartTime + TrendWindow}
TrendHistories ==
    {h \in UNION {[1..n -> [temp : {40, 46}, timestamp : TrendTimes]] : n \in 0..MaxTrendLen} :
        \A i \in 1..(Len(h) - 1) : h[i].timestamp < h[i + 1].timestamp}
InitTrend ==
    /\ cfg = CfgTrend
    /\ demo = FALSE
    /\ mu = "atomic"
    /\ stopChan = "open"
    /\ mainPc = "serve"
    /\ modeCmd = "manual"
    /\ panicked = FALSE
    /\ now = StartTime + TrendWindow
    /\ pc = "wait"
    /\ running = TRUE
    /\ tickPending = FALSE
    /\ cpuHistory \in TrendHistories
    /\ gpuHistory = [i \in 1..Len(cpuHistory) |-> tempPoint(35, cpuHistory[i].timestamp)]
    /\ cycleStart = IF cpuHistory = <<>> THEN StartTime ELSE cpuHistory[Len(cpuHistory)].timestamp
    /\ cycleNo = Len(cpuHistory)
    /\ cpuReading = IF cpuHistory = <<>> THEN NoReading ELSE cpuHistory[Len(cpuHistory)].temp
    /\ gpuReading = IF cpuHistory = <<>> THEN NoReading ELSE 35
    /\ lastCPUReading = cpuReading
    /\ lastGPUReading = gpuReading
    /\ target = IF cpuHistory = <<>> THEN NoSpeed ELSE cfg.IdleSpeed
    /\ currentSpeed = IF cpuHistory = <<>> THEN 0 ELSE cfg.IdleSpeed
    /\ targetSpeed = currentSpeed
    /\ currentZone = IF cpuHistory = <<>> THEN "" ELSE "idle"
    /\ lastOverThreshold = ZeroTime
    /\ hints = <<>>
    /\ override = Nil
    /\ sent = target
    /\ recorded = target
    /\ status = Nil
    /\ obs = NoNotes
SpecTrend == InitTrend /\ [][GetStatus]_vars

----------------------------------------------------------------------------
(* Properties *)

(* The step in which calculateTarget returns *)
DecideStep == pc = "decide" /\ pc' = "setSpeed"

(* C1: the value returned by calculateTarget lies in [MinSpeed, MaxSpeed],
   whatever the readings, hints, override and hysteresis state are. *)
C1_TargetWithinLimits ==
    pc = "setSpeed" => (cfg.MinSpeed <= target /\ target <= cfg.MaxSpeed)

(* C2: in every reachable state, from construction on, currentSpeed and
   targetSpeed lie in [MinSpeed, MaxSpeed]. *)
C2_SpeedsWithinLimits ==
    /\ cfg.MinSpeed <= currentSpeed /\ currentSpeed <= cfg.MaxSpeed
    /\ cfg.MinSpeed <= targetSpeed /\ targetSpeed <= cfg.MaxSpeed

(* C3: when an override is present at the decision, the target of the cycle
   is the speed of the override, and that same value is stored as current
   speed, sent to the actuator and handed to the store. *)
C3_OverrideDeterminesCycle ==
    [][ /\ (DecideStep /\ override # Nil) => target' = override[1].speed
        /\ (pc = "setSpeed" /\ pc' = "ipmi") => (currentSpeed' = target /\ target' = target)
        /\ (pc = "ipmi" /\ pc' = "record") => (sent' = target /\ target' = target)
        /\ (pc = "record" /\ pc' = "wait") => recorded' = target ]_vars

(* A cycle completed under an override whose speed no threshold decision can
   give (above MaxSpeed), with a hint registered. *)
C3_Witness ==
    /\ pc = "wait"
    /\ override # Nil
    /\ override[1].speed > cfg.MaxSpeed
    /\ DOMAIN hints # {}
    /\ currentSpeed = override[1].speed
    /\ sent = override[1].speed
    /\ recorded = override[1].speed

(* C4: an override without expiry stays in place through every step of the
   loop and of the clock (only SetOverride and ClearOverride change it) and
   decides every cycle; an override with an expiry decides no cycle entered
   after that expiry, and a cycle decided without override returns a target
   of the threshold logic, within [MinSpeed, MaxSpeed]. *)
C4_OverrideExpiry ==
    [][ /\ (override # Nil /\ IsZero(override[1].expiresAt) /\ override' # override)
              => (pc' = pc /\ now' = now /\ hints' = hints)
        /\ (DecideStep /\ override # Nil /\ IsZero(override[1].expiresAt))
              => target' = override[1].speed
        /\ (DecideStep /\ override # Nil /\ ~IsZero(override[1].expiresAt))
              => ~Before(override[1].expiresAt, cycleStart)
        /\ (DecideStep /\ override = Nil)
              => (cfg.MinSpeed <= target' /\ target' <= cfg.MaxSpeed
                  /\ targetSpeed' = target') ]_vars

(* A cycle entered after the expiry of the override that decided the cycle
   before it: the override is still registered and is about to be evicted. *)
C4_Witness ==
    /\ pc = "update"
    /\ override # Nil
    /\ ~IsZero(override[1].expiresAt)
    /\ Before(override[1].expiresAt, cycleStart)
    /\ sent = override[1].speed

(* C5: after an over-threshold cycle, a below-threshold cycle without
   override does not lower the speed while now - lastOverThreshold <=
   cooldown, and lowers it by at most stepSize afterwards. *)
C5_CooldownHold ==
    [][ (DecideStep /\ override = Nil /\ ~overThreshold(cpuReading, gpuReading)
         /\ ~IsZero(lastOverThreshold))
        => /\ (now - lastOverThreshold <= cooldownDuration) => target' >= currentSpeed
           /\ (now - lastOverThreshold > cooldownDuration)
                 => target' >= currentSpeed - stepSize ]_vars

(* C6 as stated: in an over-threshold cycle without override the target of
   the cycle is at most currentSpeed + stepSize and at least currentSpeed, and
   from the idle speed with cpu.max = threshold + 1 and gpu.max = 0 the speed
   rises by exactly min(stepSize, needed - idleSpeed). *)
C6_CycleTargetStep ==
    [][ (DecideStep /\ override = Nil /\ overThreshold(cpuReading, gpuReading))
        => LET over == max(0, max(cpuReading - cpuThreshold, gpuReading - gpuThreshold))
               needed == baseSpeed + ((over \div 5) + 1) * stepSize
           IN /\ target' <= currentSpeed + stepSize
              /\ target' >= currentSpeed
              /\ (currentSpeed = baseSpeed /\ cpuReading = cpuThreshold + 1
                   /\ gpuReading = 0)
                    => target' = currentSpeed + min(stepSize, needed - baseSpeed) ]_vars

(* C6 as amended: in an over-threshold cycle without override the thermal
   target th = min(currentSpeed + stepSize, max(currentSpeed, needed)) lies
   between currentSpeed and currentSpeed + stepSize, and the target of the
   cycle is th raised to the hint floor and clamped to [MinSpeed, MaxSpeed];
   from the idle speed with cpu.max = threshold + 1 and gpu.max = 0, with no
   hint floor above th and th within the limits, the speed rises by exactly
   min(stepSize, needed - idleSpeed). *)
C6_ThermalRamp ==
    [][ (DecideStep /\ override = Nil /\ overThreshold(cpuReading, gpuReading))
        => LET over == max(0, max(cpuReading - cpuThreshold, gpuReading - gpuThreshold))
               needed == baseSpeed + ((over \div 5) + 1) * stepSize
               th == min(currentSpeed + stepSize, max(currentSpeed, needed))
               floor == IF DOMAIN hints = {} THEN 0
                        ELSE CHOOSE m \in {hints[s].minFanSpeed : s \in DOMAIN hints} :
                               \A s \in DOMAIN hints : hints[s].minFanSpeed <= m
               raised == max(th, floor)
           IN /\ currentSpeed <= th /\ th <= currentSpeed + stepSize
              /\ target' = max(cfg.MinSpeed, min(cfg.MaxSpeed, raised))
              /\ (currentSpeed = baseSpeed /\ cpuReading = cpuThreshold + 1
                   /\ gpuReading = 0 /\ floor <= th
                   /\ cfg.MinSpeed <= th /\ th <= cfg.MaxSpeed)
                    => target' = currentSpeed + min(stepSize, needed - baseSpeed) ]_vars

(* The first over-threshold decision from the idle speed, cpu.max one degree
   over the threshold, the GPU read failed, no hint: one step up. *)
C6_Witness ==
    /\ pc = "setSpeed"
    /\ override = Nil
    /\ DOMAIN hints = {}
    /\ currentSpeed = baseSpeed
    /\ cpuReading = cpuThreshold + 1
    /\ gpuReading = 0
    /\ target = baseSpeed + stepSize

(* C7: from the idle speed 20, with threshold 65, stepSize 10 and idleSpeed
   20, a CPU reading of 90 in every cycle gives 30, 40, 50 after the first
   three cycles, 10 more per cycle up to 80, and 80 from then on.  cycleNo
   counts the idle cycle too, so cycleNo - 1 cycles have read 90. *)
C7_RampSchedule ==
    (pc = "wait" /\ cycleNo >= 1)
      => /\ currentSpeed = min(20 + 10 * (cycleNo - 1), 80)
         /\ sent = currentSpeed
         /\ recorded = currentSpeed
         /\ (cycleNo = 2 => currentSpeed = 30)
         /\ (cycleNo = 3 => currentSpeed = 40)
         /\ (cycleNo = 4 => currentSpeed = 50)

(* The eighth cycle at 90 degrees has completed: the speed reached 80 in the
   sixth and has stayed there. *)
C7_Witness ==
    pc = "wait" /\ cycleNo = 9 /\ currentSpeed = 80 /\ lastOverThreshold > StartTime

(* C8: without override, the target of a cycle is the thermal target raised
   to the highest minFanSpeed among the registered hints, then clamped: hints
   never lower it, and a thermal target at or above the floor is unchanged by
   the hints. *)
C8_HintFloor ==
    [][ (DecideStep /\ override = Nil)
        => LET th == thermalTarget(cpuReading, gpuReading)
               floors == {hints[s].minFanSpeed : s \in DOMAIN hints}
               floor == IF floors = {} THEN 0
                        ELSE CHOOSE m \in floors : \A f \in floors : f <= m
               lim(t) == max(cfg.MinSpeed, min(cfg.MaxSpeed, t))
           IN /\ target' = lim(max(th, floor))
              /\ target' >= lim(th)
              /\ (floor <= th) => target' = lim(th) ]_vars

(* Two hints with different floors are registered and the thermal target of
   the decision just made was above both: the hints left it alone. *)
C8_Witness ==
    /\ pc = "setSpeed"
    /\ override = Nil
    /\ DOMAIN hints = {"a", "b"}
    /\ hints["a"].minFanSpeed < hints["b"].minFanSpeed
    /\ target > hints["b"].minFanSpeed
    /\ target <= cfg.MaxSpeed

(* C9: a registered hint carries the minFanSpeed of its intensity (high 45,
   medium 25, low 15, anything else 25), and the minFanSpeed registered for a
   source changes only when AddHint registers a new hint for that source. *)
C9_HintFloorFromIntensity ==
    [][ \A s \in DOMAIN hints' :
          /\ hints'[s].minFanSpeed =
                (CASE hints'[s].intensity = "high" -> 45
                   [] hints'[s].intensity = "medium" -> 25
                   [] hints'[s].intensity = "low" -> 15
                   [] OTHER -> 25)
          /\ (s \in DOMAIN hints /\ hints'[s] # hints[s])
                => (pc' = pc /\ now' = now /\ override' = override
                    /\ \A o \in DOMAIN hints \ {s} :
                          o \in DOMAIN hints' /\ hints'[o] = hints[o]) ]_vars

(* Hints of an unrecognised and of a low intensity are registered and a cycle
   has completed since. *)
C9_Witness ==
    /\ pc = "wait"
    /\ DOMAIN hints = {"a", "b"}
    /\ hints["a"].intensity = "extreme" /\ hints["a"].minFanSpeed = 25
    /\ hints["b"].intensity = "low" /\ hints["b"].minFanSpeed = 15
    /\ recorded = 25

(* C10: a registered hint imposes a floor of 25 for intensity low, 35 for
   medium and 45 for high. *)
C10_ReadmeFloors ==
    \A s \in DOMAIN hints :
        /\ hints[s].intensity = "low" => hints[s].minFanSpeed = 25
        /\ hints[s].intensity = "medium" => hints[s].minFanSpeed = 35
        /\ hints[s].intensity = "high" => hints[s].minFanSpeed = 45

(* The floor among the hints hs, and the decision calculateTarget returns
   when hs are the registered hints. *)
floorAmong(hs) ==
    IF DOMAIN hs = {} THEN 0
    ELSE CHOOSE m \in {hs[s].minFanSpeed : s \in DOMAIN hs} :
           \A s \in DOMAIN hs : hs[s].minFanSpeed <= m

decisionWith(hs) ==
    IF override # Nil THEN override[1].speed
    ELSE max(cfg.MinSpeed, min(cfg.MaxSpeed,
             max(thermalTarget(cpuReading, gpuReading), floorAmong(hs))))

(* C11 as stated: when AddHint(h) has been followed by RemoveHint(h.source)
   with no control cycle and no other hint call in between, the next decision
   returns the target, and leaves the hysteresis state, that it would with the
   hints registered before the AddHint. *)
C11_AddThenRemove ==
    [][ (DecideStep /\ lastAdd # Nil /\ lastAdd[1].stage = "removed")
        => /\ target' = decisionWith(lastAdd[1].before)
           /\ (override = Nil => targetSpeed' = decisionWith(lastAdd[1].before))
           /\ hints = lastAdd[1].before ]_vars

(* C11 as amended: the pair leaves the registry without any hint of
   h.source, so the next decision is the one of the hints registered before
   the AddHint less the hint of that source; it is the decision of the hints
   registered before when none of them was of h.source.  The hysteresis state
   the decision leaves does not depend on the hints. *)
C11_AddThenRemoveFresh ==
    [][ (DecideStep /\ lastAdd # Nil /\ lastAdd[1].stage = "removed")
        => LET before == lastAdd[1].before
               others == [s \in DOMAIN before \ {lastAdd[1].source} |-> before[s]]
           IN /\ hints = others
              /\ target' = decisionWith(others)
              /\ (override = Nil => targetSpeed' = decisionWith(others))
              /\ (override # Nil => targetSpeed' = targetSpeed)
              /\ currentSpeed' = currentSpeed
              /\ lastOverThreshold' =
                    (IF override = Nil /\ overThreshold(cpuReading, gpuReading)
                     THEN now ELSE lastOverThreshold)
              /\ (lastAdd[1].source \notin DOMAIN before
                    => (hints = before /\ target' = decisionWith(before))) ]_vars

(* A high hint was added while no hint was registered and removed again; the
   decision that followed was made below the thresholds and returned the idle
   speed, not the floor of the hint. *)
C11_Witness ==
    /\ pc = "setSpeed"
    /\ lastAdd # Nil
    /\ lastAdd[1].stage = "decided"
    /\ lastAdd[1].before = <<>>
    /\ override = Nil
    /\ target = baseSpeed
    /\ target < HighFloor

(* C12: AddHint for a source that has a hint leaves exactly one hint of that
   source, the new one: its floor is the floor of the intensity passed, also when
   that is lower than the floor replaced, its expiry is the one of the call,
   and the hints of the other sources are as before. *)
C12_HintReplaced ==
    [][ \A s \in DOMAIN hints :
          (lastAdd' # Nil /\ lastAdd'[1].stage = "added" /\ lastAdd'[1].source = s
           /\ lastAdd'[1].before = hints /\ lastAdd' # lastAdd)
          => /\ s \in DOMAIN hints'
             /\ Cardinality({x \in DOMAIN hints' : hints'[x].source = s}) = 1
             /\ hints'[s].intensity = lastAdd'[1].intensity
             /\ hints'[s].minFanSpeed =
                   (CASE lastAdd'[1].intensity = "high" -> 45
                      [] lastAdd'[1].intensity = "medium" -> 25
                      [] lastAdd'[1].intensity = "low" -> 15
                      [] OTHER -> 25)
             /\ (IsZero(hints'[s].expiresAt) \/ hints'[s].expiresAt > now)
             /\ DOMAIN hints' = DOMAIN hints
             /\ \A o \in DOMAIN hints \ {s} : hints'[o] = hints[o]
             /\ floorAmong(hints') =
                   max(hints'[s].minFanSpeed,
                       floorAmong([o \in DOMAIN hints \ {s} |-> hints[o]])) ]_vars

(* A high hint of source "a" has just been replaced by a low one: the floor
   of the registry fell from 45 to 15. *)
C12_Witness ==
    /\ lastAdd # Nil
    /\ lastAdd[1].stage = "added"
    /\ lastAdd[1].source = "a"
    /\ lastAdd[1].intensity = "low"
    /\ "a" \in DOMAIN lastAdd[1].before
    /\ lastAdd[1].before["a"].minFanSpeed = HighFloor
    /\ DOMAIN hints = {"a"}
    /\ hints["a"].minFanSpeed = LowFloor
    /\ hintMinSpeed = LowFloor

(* C13: the mode of a Status is "override" when it shows an override,
   otherwise "hinted" when it lists at least one hint, otherwise "auto". *)
C13_StatusMode ==
    status # Nil
      => status[1].mode =
           (IF status[1].override # Nil THEN "override"
            ELSE IF DOMAIN status[1].activeHints # {} THEN "hinted"
            ELSE "auto")

(* A Status taken with an override and a hint registered: the override
   decides the mode. *)
C13_Witness ==
    /\ status # Nil
    /\ status[1].override # Nil
    /\ DOMAIN status[1].activeHints # {}
    /\ status[1].mode = "override"

(* C14: the readings, zone, target speed and current speed of a Status are
   those the controller had when it was constructed or when some cycle had
   finished updating them: a Status taken while a cycle is in progress never
   shows the readings or the target of that cycle next to the zone or the
   current speed of the cycle before. *)
C14_ConsistentSnapshot ==
    (status # Nil /\ ~status[1].written /\ Noted("taken"))
      => view(status[1].cpu, status[1].gpu, status[1].zone, status[1].targetSpeed,
              status[1].currentSpeed) = obs.taken

(* C15: a Status shares no object with the controller: a write through a
   Status changes neither the hints, the override nor the readings of the
   controller, and no step of the controller changes the hints, the override
   or the readings of a Status already returned. *)
C15_SnapshotIsCopy ==
    [][ (status # Nil /\ status' # Nil)
        => /\ (status'[1].written /\ ~status[1].written)
                 => /\ hints' = hints
                    /\ override' = override
                    /\ lastCPUReading' = lastCPUReading
                    /\ cpuReading' = cpuReading
           /\ (status'[1].written = status[1].written
               /\ (hints' # hints \/ override' # override \/ pc' # pc \/ now' # now))
                 => /\ status'[1].activeHints = status[1].activeHints
                    /\ status'[1].override = status[1].override
                    /\ status'[1].cpu = status[1].cpu
                    /\ status'[1].gpu = status[1].gpu ]_vars

(* C16: at most one cycle is in flight: a cycle is entered only when every
   cycle entered before has handed its reading to the store, however many
   ticks have elapsed during its fan command, and every step of a cycle in
   progress is the next step of that cycle. *)
C16_OneCycleInFlight ==
    /\ started - cycleNo \in {0, 1}
    /\ (started - cycleNo = 1) = (pc \in {"readCPU", "readGPU", "update", "decide",
                                           "setSpeed", "ipmi", "record"})
    /\ (started - cycleNo = 1) = (cycleStart # ZeroTime)
    /\ (pc = "wait" /\ started > 0) => (recorded = currentSpeed /\ sent = currentSpeed)

(* The fan command of the first cycle is still running two tick intervals
   after the cycle began: a tick is pending and no second cycle has been
   entered. *)
C16_Witness ==
    /\ pc = "ipmi"
    /\ started = 1
    /\ cycleNo = 0
    /\ tickPending
    /\ now >= cycleStart + 2 * cfg.Interval

(* C17: a hint added while a cycle is in progress is seen by that cycle only
   if the cycle has not yet entered its locked section: when the hints that
   were registered as the cycle left the section that stores the readings and
   evicts are all still registered, the decision of the cycle is the one of
   those hints, whatever has been added since. *)
C17_HintSeenOrDeferred ==
    [][ (DecideStep /\ seen # Nil
         /\ \A s \in DOMAIN seen[1] : s \in DOMAIN hints /\ hints[s] = seen[1][s])
        => target' = decisionWith(seen[1]) ]_vars

(* C18: between the eviction and the decision of a cycle no call changes the
   hints or the override: the history append, the eviction and the decision
   are one step for AddHint, RemoveHint, SetOverride and ClearOverride. *)
C18_EvictionAndDecisionAtomic ==
    [][ pc = "decide" => (hints' = hints /\ override' = override) ]_vars

(* A sensor read of the cycle in progress has failed *)
readFailed == cpuReading = 0 \/ gpuReading = 0

(* C19: a cycle whose CPU read or GPU read has failed goes on with max 0 for
   that source: it stores the readings and appends them to the histories,
   decides with them (a failed CPU read next to a cool GPU is an idle cycle),
   stores and sends the speed and hands the triple to the store; the cycle
   reaches its end and the next pending tick enters the next cycle. *)
C19_ReadFailure ==
    /\ [][ /\ (pc = "readCPU" /\ pc' # pc) => (pc' = "readGPU" /\ cpuReading' >= 0)
           /\ (pc = "readGPU" /\ pc' # pc) => (pc' = "update" /\ gpuReading' >= 0)
           /\ (pc = "update" /\ pc' # pc /\ readFailed)
                 => /\ pc' = "decide"
                    /\ lastCPUReading' = cpuReading /\ lastGPUReading' = gpuReading
                    /\ Len(cpuHistory') >= 1 /\ Len(gpuHistory') >= 1
                    /\ cpuHistory'[Len(cpuHistory')] = [temp |-> cpuReading, timestamp |-> now]
                    /\ gpuHistory'[Len(gpuHistory')] = [temp |-> gpuReading, timestamp |-> now]
           /\ (pc = "decide" /\ pc' # pc /\ readFailed)
                 => /\ pc' = "setSpeed"
                    /\ cfg.MinSpeed <= target' /\ target' <= cfg.MaxSpeed
                    /\ targetSpeed' = target'
                    /\ (cpuReading = 0 /\ gpuReading <= cfg.GPUThreshold)
                          => (currentZone' = "idle" /\ lastOverThreshold' = lastOverThreshold
                              /\ target' <= max(currentSpeed, cfg.IdleSpeed))
                    /\ (cpuReading > cfg.CPUThreshold)
                          => (lastOverThreshold' = now /\ target' >= min(currentSpeed, cfg.MaxSpeed))
           /\ (pc = "setSpeed" /\ pc' # pc) => (pc' = "ipmi" /\ currentSpeed' = target)
           /\ (pc = "ipmi" /\ pc' # pc) => (pc' = "record" /\ sent' = target)
           /\ (pc = "record" /\ pc' # pc)
                 => (pc' = "wait" /\ recorded' = target /\ cycleNo' = cycleNo + 1) ]_vars
    /\ ((pc = "readGPU" /\ cpuReading = 0) ~> (pc = "wait" /\ lastCPUReading = 0))
    /\ ((pc = "update" /\ gpuReading = 0) ~> (pc = "wait" /\ lastGPUReading = 0))
    /\ ((pc = "wait" /\ tickPending /\ lastCPUReading = 0) ~> (pc = "readCPU"))

(* Both reads of the first cycle failed; the cycle stored 0 for both, handed
   its triple to the store, and the second cycle has read the CPU at 90. *)
C19_Witness ==
    /\ pc = "update"
    /\ started = 2
    /\ cycleNo = 1
    /\ lastCPUReading = 0
    /\ lastGPUReading = 0
    /\ Len(cpuHistory) >= 1
    /\ cpuHistory[Len(cpuHistory)].temp = 0
    /\ recorded = currentSpeed
    /\ sent = currentSpeed
    /\ cpuReading = 90

(* C20: whether the fan command or the store write fails or not, a cycle
   issues one fan command, then hands its triple to the store and ends; the
   cycle after a cycle whose command failed decides and issues its own
   command. *)
C20_ActuatorFailure ==
    /\ [][ /\ calls' <= 1
           /\ (pc = "ipmi" /\ calls' # calls)
                 => (pc' = "record" /\ sent' = target /\ calls = 0)
           /\ (pc = "record" /\ pc' # pc)
                 => (pc' = "wait" /\ recorded' = target /\ recorded' = currentSpeed
                     /\ calls = 1)
           /\ (pc = "wait" /\ pc' # pc) => (pc' = "readCPU" /\ calls' = 0)
           /\ (pc = "decide" /\ pc' # pc /\ prevErr)
                 => (cfg.MinSpeed <= target' /\ target' <= cfg.MaxSpeed) ]_vars
    /\ ((pc = "record" /\ actuatorErr) ~> (pc = "wait" /\ recorded = currentSpeed))
    /\ ((pc = "wait" /\ tickPending /\ (actuatorErr \/ storeErr))
           ~> (pc = "record" /\ calls = 1))

(* The fan command and the store write of the first cycle failed; the second
   cycle has decided and issued its own fan command. *)
C20_Witness ==
    /\ pc = "record"
    /\ started = 2
    /\ cycleNo = 1
    /\ prevErr
    /\ storeErr
    /\ calls = 1
    /\ sent = target
    /\ recorded # NoSpeed

(* C21: Run first sets running, then hands the enable-manual command to
   ipmitool, then enters one cycle at once (no tick is awaited), and waits
   for ticks only when that cycle has ended; when the command fails the first
   cycle is entered all the same, it ends, and pending ticks enter further
   cycles. *)
C21_RunOrder ==
    /\ [][ /\ (pc = "new" /\ pc' # pc)
                 => (running' /\ pc' = "enable" /\ modeCmd' = "none" /\ started' = 0)
           /\ (pc = "enable" /\ pc' # pc)
                 => (running /\ modeCmd' = "manual" /\ pc' = "readCPU"
                     /\ started = 0 /\ started' = 1 /\ cycleStart' = now)
           /\ (modeCmd' # modeCmd) => pc = "enable"
           /\ (started' # started /\ started = 0) => pc = "enable"
           /\ (started' # started /\ started > 0) => (pc = "wait" /\ tickPending)
           /\ (pc' = "wait" /\ pc # "wait") => (started >= 1 /\ pc = "record") ]_vars
    /\ (pc = "new" => (~running /\ modeCmd = "none" /\ started = 0))
    /\ ((pc = "enable") ~> (pc = "wait" /\ started = 1 /\ cycleNo = 1))
    /\ ((pc = "wait" /\ tickPending /\ enableErr) ~> (pc = "wait" /\ started > 1))

(* enableManualMode has failed, the first cycle has ended and a tick has
   entered the second cycle. *)
C21_Witness ==
    /\ enableErr
    /\ running
    /\ modeCmd = "manual"
    /\ started = 2
    /\ cycleNo = 1
    /\ pc = "readGPU"

(* C22: Stop clears running and closes stopChan and, in live mode and not in
   demo mode, has handed the restore-automatic command to ipmitool when it
   returns. *)
C22_StopRestores ==
    [][ (stopChan' # stopChan)
           => /\ ~running'
              /\ stopChan' = "closed"
              /\ modeCmd' = IF demo THEN modeCmd ELSE "auto" ]_vars

(* C22, as the code has it: Stop clears running and closes stopChan and issues
   no command; main, which called it, then hands the restore-automatic command
   to ipmitool in live mode and issues no command in demo mode, and returns.
   No restore command is issued in any other place. *)
C22_ShutdownRestores ==
    /\ [][ /\ (stopChan' # stopChan)
                 => (~running' /\ stopChan' = "closed" /\ modeCmd' = modeCmd
                     /\ mainPc = "serve" /\ mainPc' = "restore")
           /\ (modeCmd' = "auto" /\ modeCmd # "auto")
                 => (~demo /\ mainPc = "restore" /\ stopChan = "closed" /\ mainPc' = "exited")
           /\ (mainPc' = "exited" /\ mainPc # "exited")
                 => modeCmd' = IF demo THEN modeCmd ELSE "auto" ]_vars
    /\ (demo => modeCmd = "none")
    /\ [](demo => modeCmd = "none")
    /\ ((mainPc = "restore" /\ ~demo) ~> (mainPc = "exited" /\ modeCmd = "auto"))
    /\ ((mainPc = "restore" /\ demo) ~> (mainPc = "exited" /\ modeCmd = "none"))

(* The live controller has run a cycle in manual mode, main has stopped it
   and issued the restore command, and has returned. *)
C22_Witness ==
    /\ ~demo
    /\ mainPc = "exited"
    /\ modeCmd = "auto"
    /\ stopChan = "closed"
    /\ ~running
    /\ sent # NoSpeed

(* C23: a call of Stop on a controller that has been stopped raises no
   failure and leaves the controller stopped: once stopChan is closed no step
   ends in a panic. *)
C23_SecondStopIdempotent ==
    [][ stopChan = "closed" => (~panicked' /\ stopChan' = "closed") ]_vars

(* C24: a request to the override boundary with a speed in 0..100 is accepted
   and its speed, duration and reason are passed to SetOverride; a request
   with a speed outside 0..100 is rejected and SetOverride is not called; the
   override of the controller has a speed in 0..100. *)
C24_OverrideBoundary ==
    /\ [][ (response' # response)
              => LET r == response'[1]
                 IN IF r.speed \in 0..100
                    THEN /\ r.code = StatusOK
                         /\ override' = <<newOverride(r.speed, r.duration, r.reason)>>
                    ELSE /\ r.code = StatusBadRequest
                         /\ override' = override ]_vars
    /\ [](override # Nil => override[1].speed \in 0..100)

(* C25: the CPU threshold, the GPU threshold and the idle speed of a Status
   are the values calculateTarget uses: the configured value, or the default
   that calculateTarget puts in the place of a configured 0. *)
C25_StatusReportsEffective ==
    status # Nil
       => /\ status[1].cpuThreshold = cpuThreshold
          /\ status[1].gpuThreshold = gpuThreshold
          /\ status[1].idleSpeed = baseSpeed

(* C26: a decision without override, with both readings at or below their
   thresholds and with lastOverThreshold unset, returns
   clamp(max(idle speed, hint floor)), whatever the current speed is. *)
C26_SnapToIdle ==
    [][ (DecideStep /\ override = Nil /\ IsZero(lastOverThreshold)
         /\ ~overThreshold(cpuReading, gpuReading))
           => /\ target' = max(cfg.MinSpeed,
                               min(cfg.MaxSpeed, max(baseSpeed, hintMinSpeed)))
              /\ targetSpeed' = target'
              /\ IsZero(lastOverThreshold') ]_vars

(* An override has brought the speed to 50 and has been cleared; no cycle was
   ever over threshold, and a cycle below threshold with no hint has decided
   on the idle speed. *)
C26_Witness ==
    /\ pc = "setSpeed"
    /\ override = Nil
    /\ hints = <<>>
    /\ IsZero(lastOverThreshold)
    /\ currentSpeed = 50
    /\ ~overThreshold(cpuReading, gpuReading)
    /\ target = baseSpeed

(* C27: a cycle calls cleanExpired once, before calculateTarget; the call
   removes the hints and the override whose expiresAt is set and before now,
   and keeps every hint and override whose expiresAt is unset or not before
   now. *)
C27_EvictionOncePerCycle ==
    [][ /\ evictions' <= 1
        /\ (evictions' # evictions /\ evictions' = 1)
              => /\ pc = "update" /\ pc' = "decide"
                 /\ DOMAIN hints' = {s \in DOMAIN hints :
                                        hints[s].expiresAt = ZeroTime
                                        \/ hints[s].expiresAt >= now}
                 /\ \A s \in DOMAIN hints' : hints'[s] = hints[s]
                 /\ override' = IF override # Nil /\ override[1].expiresAt # ZeroTime
                                    /\ override[1].expiresAt < now
                                 THEN Nil ELSE override
        /\ DecideStep => evictions = 1
        /\ (pc' = "update" /\ pc # "update") => evictions = 0 ]_vars

(* The cycle has evicted the expired hint of source a and kept the hint of
   source b, which has no expiry, and the override, which expires now. *)
C27_Witness ==
    /\ pc = "decide"
    /\ evictions = 1
    /\ evicted = {"a"}
    /\ DOMAIN hints = {"b"}
    /\ hints["b"].expiresAt = ZeroTime
    /\ override # Nil
    /\ override[1].expiresAt = now

(* C28: a decision without override leaves the zone hot when cpu.max > 80 or
   gpu.max > 85, else warm when cpu.max > 70 or gpu.max > 75, else active when
   a reading is over its threshold, else idle; the value it returns is that of
   the threshold logic, hint floor and clamp, in which the zone has no part: a
   warm or hot cycle below the thresholds is decided as a cycle below the
   thresholds. *)
C28_ZoneClassification ==
    [][ (DecideStep /\ override = Nil)
           => /\ currentZone' =
                    IF cpuReading > 80 \/ gpuReading > 85 THEN "hot"
                    ELSE IF cpuReading > 70 \/ gpuReading > 75 THEN "warm"
                    ELSE IF cpuReading > cpuThreshold \/ gpuReading > gpuThreshold
                         THEN "active"
                    ELSE "idle"
              /\ target' = clamp(applyHintFloor(thermalTarget(cpuReading, gpuReading),
                                                hintMinSpeed))
              /\ (~overThreshold(cpuReading, gpuReading) /\ hints = <<>>)
                    => (target' <= max(currentSpeed, baseSpeed)
                        /\ lastOverThreshold' = lastOverThreshold) ]_vars

(* A cycle that read 72 for the CPU under a threshold of 75 is in the warm
   zone and, being below the thresholds, has decided on the idle speed. *)
C28_Witness ==
    /\ pc = "setSpeed"
    /\ override = Nil
    /\ cfg.CPUThreshold = 75
    /\ cpuReading = 72
    /\ gpuReading = 35
    /\ currentZone = "warm"
    /\ target = baseSpeed

(* C29: with a threshold configured as 0 the decision compares the CPU
   reading with 65 and the GPU reading with 60: a cycle with no reading above
   its threshold is decided as below threshold (zone idle, lastOverThreshold
   kept, no increase over max(current speed, idle speed)), a cycle with a
   reading above it as over threshold (lastOverThreshold set to now, zone not
   idle, no decrease). *)
C29_ZeroThresholdDefaults ==
    [][ (DecideStep /\ override = Nil
         /\ (cfg.CPUThreshold = 0 \/ cfg.GPUThreshold = 0))
           => LET ct == IF cfg.CPUThreshold = 0 THEN 65 ELSE cfg.CPUThreshold
                  gt == IF cfg.GPUThreshold = 0 THEN 60 ELSE cfg.GPUThreshold
              IN IF cpuReading > ct \/ gpuReading > gt
                 THEN /\ lastOverThreshold' = now
                      /\ currentZone' # "idle"
                      /\ target' >= min(currentSpeed, cfg.MaxSpeed)
                 ELSE /\ lastOverThreshold' = lastOverThreshold
                      /\ currentZone' = "idle"
                      /\ target' <= max(currentSpeed, baseSpeed) ]_vars

(* Both thresholds are configured as 0.  The first cycle read 66 or 61 and
   was over threshold; the second cycle has read 65 and 60 and was decided as
   below threshold. *)
C29_Witness ==
    /\ cfg.CPUThreshold = 0
    /\ cfg.GPUThreshold = 0
    /\ pc = "setSpeed"
    /\ cpuReading = 65
    /\ gpuReading = 60
    /\ currentZone = "idle"
    /\ lastOverThreshold # ZeroTime
    /\ lastOverThreshold < cycleStart

(* C30: SetOverride leaves an override made of its arguments alone: the
   speed and the reason passed, the time of the call as creation time, and as
   expiry the time of the call plus the duration when the duration is above 0
   and none when it is 0 or below, whatever the override in place was. *)
C30_OverrideReplaced ==
    [][ (lastSet' # lastSet \/ (override' # override /\ override' # Nil))
           => /\ lastSet' # Nil
              /\ LET c == lastSet'[1]
                 IN /\ override' # Nil
                    /\ override'[1].speed = c.speed
                    /\ override'[1].reason = c.reason
                    /\ override'[1].createdAt = now
                    /\ c.duration > 0 => override'[1].expiresAt = now + c.duration
                    /\ c.duration <= 0 => override'[1].expiresAt = ZeroTime
                    /\ DOMAIN override'[1] = {"speed", "reason", "createdAt", "expiresAt"} ]_vars

(* An override with an expiry was in place; SetOverride with another speed,
   another reason and duration 0 at a later time has left an override without
   expiry. *)
C30_Witness ==
    /\ lastSet # Nil
    /\ lastSet[1].found # Nil
    /\ lastSet[1].found[1].expiresAt # ZeroTime
    /\ lastSet[1].duration = 0
    /\ override # Nil
    /\ override[1].expiresAt = ZeroTime
    /\ override[1].speed # lastSet[1].found[1].speed
    /\ override[1].reason # lastSet[1].found[1].reason
    /\ override[1].createdAt > lastSet[1].found[1].createdAt

(* C31: a step of a cycle taken while an override is in place changes none
   of zone, lastOverThreshold and targetSpeed, whatever the readings are: the
   decision returns the speed of the override, which becomes currentSpeed, and
   the first locked section stores the readings and appends to the
   histories. *)
C31_OverrideFrame ==
    [][ (override # Nil /\ pc' # pc)
           => /\ currentZone' = currentZone
              /\ lastOverThreshold' = lastOverThreshold
              /\ targetSpeed' = targetSpeed
              /\ DecideStep => target' = override[1].speed
              /\ (currentSpeed' # currentSpeed) => (pc = "setSpeed" /\ currentSpeed' = target)
              /\ (pc = "update")
                    => (lastCPUReading' = cpuReading /\ lastGPUReading' = gpuReading) ]_vars

(* After a cycle that was idle an override has been set, and a cycle that
   read 90 and 86 has been decided: it returns the speed of the override and
   the zone, lastOverThreshold and targetSpeed are those of the idle cycle. *)
C31_Witness ==
    /\ pc = "setSpeed"
    /\ override # Nil
    /\ cpuReading = 90
    /\ gpuReading = 86
    /\ lastCPUReading = 90
    /\ target = 50
    /\ currentZone = "idle"
    /\ IsZero(lastOverThreshold)
    /\ targetSpeed = 20

(* C32: the goroutine of Run does not hold fc.mu where enableManualMode, a
   sensor read, the ipmitool fan command or the store write starts or is in
   progress: it holds the lock only inside Run's first section, the first
   locked section of a cycle, calculateTarget and the first section of
   setFanSpeed. *)
C32_NoLockDuringIO ==
    /\ pc \in {"enable", "readCPU", "readGPU", "ipmi", "record", "wait"} => mu = "free"
    /\ mu = "loop" => pc \in {"new", "update", "decide", "setSpeed"}

(* setFanSpeed has stored the speed under the lock and released it, and the
   ipmitool command is in progress; a hint has been registered meanwhile. *)
C32_Witness ==
    /\ ~demo
    /\ pc = "ipmi"
    /\ mu = "free"
    /\ currentSpeed = target
    /\ target = 20
    /\ DOMAIN hints = {"a"}

(* C33: each history is ordered by timestamp; the first locked section of a
   cycle appends one sample per source, the reading of the cycle at the time
   of the cycle, and leaves only samples newer than now minus the retention
   window; nothing else changes a history. *)
C33_HistoryOrderedAndBounded ==
    /\ [](/\ \A i \in 1..Len(cpuHistory) : \A j \in i..Len(cpuHistory) :
                 cpuHistory[i].timestamp <= cpuHistory[j].timestamp
          /\ \A i \in 1..Len(gpuHistory) : \A j \in i..Len(gpuHistory) :
                 gpuHistory[i].timestamp <= gpuHistory[j].timestamp)
    /\ [][ /\ (cpuHistory' # cpuHistory \/ gpuHistory' # gpuHistory)
                 => (pc = "update" /\ pc' = "decide")
           /\ (pc = "update" /\ pc' = "decide")
                 => /\ \A i \in 1..Len(cpuHistory') :
                          cpuHistory'[i].timestamp > now - cfg.HistoryRetention
                    /\ \A i \in 1..Len(gpuHistory') :
                          gpuHistory'[i].timestamp > now - cfg.HistoryRetention
                    /\ Len(cpuHistory') <= Len(cpuHistory) + 1
                    /\ Len(gpuHistory') <= Len(gpuHistory) + 1
                    /\ Len(cpuHistory') >= 1 /\ Len(gpuHistory') >= 1
                    /\ cpuHistory'[Len(cpuHistory')] = [temp |-> cpuReading, timestamp |-> now]
                    /\ gpuHistory'[Len(gpuHistory')] = [temp |-> gpuReading, timestamp |-> now]
                    /\ \A i \in 1..(Len(cpuHistory') - 1) :
                          \E k \in 1..Len(cpuHistory) : cpuHistory'[i] = cpuHistory[k]
                    /\ \A k \in 1..Len(cpuHistory) :
                          cpuHistory[k].timestamp > now - cfg.HistoryRetention
                             => \E i \in 1..Len(cpuHistory') : cpuHistory'[i] = cpuHistory[k]
         ]_vars

(* The third cycle has appended its sample and the sample of the first
   cycle, which is as old as the retention window, has been trimmed. *)
C33_Witness ==
    /\ pc = "decide"
    /\ cycleNo = 2
    /\ now = StartTime + cfg.HistoryRetention
    /\ Len(cpuHistory) = 2
    /\ cpuHistory[1].timestamp = StartTime + 1
    /\ cpuHistory[2] = [temp |-> cpuReading, timestamp |-> now]
    /\ Len(gpuHistory) = 2

(* C34: the trend is 0 when fewer than 2 samples lie within the last 60
   seconds or when the earliest and the latest of them are less than 6 seconds
   apart; otherwise it is the difference of their values divided by the
   minutes between them: (40, t0), (46, t0 + 30 s), both within the last 60
   seconds, give 12, one sample 0. *)
C34_TrendValue ==
    status # Nil =>
        LET h == cpuHistory
            within == {i \in 1..Len(h) : h[i].timestamp > status[1].timestamp - 60}
            earliest == CHOOSE i \in within : \A k \in within : h[i].timestamp <= h[k].timestamp
            latest == CHOOSE i \in within : \A k \in within : h[k].timestamp <= h[i].timestamp
            seconds == h[latest].timestamp - h[earliest].timestamp
            trend == status[1].cpuTrend
        IN /\ trend.den > 0
           /\ IF Cardinality(within) < 2 \/ seconds < 6
                 THEN trend.num = 0
                 ELSE trend.num * seconds = (h[latest].temp - h[earliest].temp) * 60 * trend.den
           /\ (/\ \E t0 \in TrendTimes : h = <<tempPoint(40, t0), tempPoint(46, t0 + 30)>>
               /\ within = {1, 2})
                 => trend.num = 12 * trend.den
           /\ Len(h) = 1 => trend.num = 0

(* The status of a controller whose history is (40, t0), (46, t0 + 30 s),
   with an older sample that has left the window of 60 seconds. *)
C34_Witness ==
    /\ status # Nil
    /\ cpuHistory = <<tempPoint(46, StartTime), tempPoint(40, StartTime + 30),
                      tempPoint(46, StartTime + 60)>>
    /\ status[1].cpuTrend = slope(360, 30)

(* C35: AddHint, RemoveHint, SetOverride, ClearOverride and GetStatus (the
   steps that change hints, override or status and leave the loop where it
   is) never change currentSpeed, targetSpeed, zone, lastOverThreshold, the
   last readings or the history; these change only in a step of a control
   cycle. *)
C35_ApiFrame ==
    [][ /\ (/\ pc' = pc
            /\ (hints' # hints \/ override' # override \/ status' # status))
              => UNCHANGED <<fanVars, readVars>>
        /\ ~(UNCHANGED <<fanVars, readVars>>)
              => (pc \in {"update", "decide", "setSpeed"} /\ pc' # pc)
      ]_vars

(* Between two cycles, with a speed, a zone, readings and a history in place,
   a hint and an override have been set and a status has been taken. *)
C35_Witness ==
    /\ pc = "wait"
    /\ currentSpeed > 0 /\ targetSpeed = currentSpeed /\ currentZone # ""
    /\ lastOverThreshold = now
    /\ lastCPUReading = 90
    /\ Len(cpuHistory) = 2 /\ Len(gpuHistory) = 2
    /\ DOMAIN hints = {"a"}
    /\ override # Nil
    /\ status # Nil /\ status[1].override # Nil /\ status[1].timestamp = now

(* C36: when a control cycle completes, currentSpeed equals the target
   decided in that cycle and the speed forwarded to the history store, whether
   or not the actuator command succeeded; it stays so until the next cycle
   stores its speed. *)
C36_SpeedIsTargetAfterCycle ==
    /\ [][ (pc = "record" /\ pc' = "wait")
              => /\ target # NoSpeed
                 /\ currentSpeed' = target
                 /\ recorded' = target
                 /\ ~demo => sent' = target ]_vars
    /\ []((pc \in {"wait", "readCPU", "readGPU", "update", "decide", "setSpeed"}
            /\ recorded # NoSpeed)
              => currentSpeed = recorded)

(* A cycle of the live controller has completed after its actuator command
   failed; the speed decided, 20, is the current speed and the recorded one. *)
C36_Witness ==
    /\ ~demo
    /\ pc = "wait"
    /\ actuatorErr
    /\ cycleNo = 2
    /\ currentSpeed = 20 /\ recorded = 20 /\ sent = 20

(* C37: with MinSpeed <= IdleSpeed <= MaxSpeed and no override at the
   decision of a cycle, the target of the cycle is at least IdleSpeed, also in
   the first cycle after the start and in the cycles after a low override. *)
C37_TargetAtLeastIdle ==
    [][ (/\ pc = "decide" /\ pc' = "setSpeed"
         /\ override = Nil
         /\ cfg.MinSpeed <= cfg.IdleSpeed /\ cfg.IdleSpeed <= cfg.MaxSpeed)
           => target' >= cfg.IdleSpeed ]_vars

(* C38: once the readings stay at or below the thresholds and no hint and no
   override is present (the first HotCycles cycles are over and have left
   none), the speed eventually equals the idle speed, clamped to
   MinSpeed..MaxSpeed, and every later cycle decides that speed. *)
C38_SettlesAtIdle ==
    (pc = "wait" /\ cycleNo = HotCycles /\ hints = <<>> /\ override = Nil)
        ~> [](/\ currentSpeed = clamp(cfg.IdleSpeed)
              /\ target # NoSpeed => target = clamp(cfg.IdleSpeed))

(* Cycles over the threshold and an override have brought the speed to 60;
   the cycles after them have brought it down to the idle speed 5 clamped to
   MinSpeed 10, and a later cycle has kept it. *)
C38_Witness ==
    /\ cfg = CfgLowIdle
    /\ pc = "wait"
    /\ lastOverThreshold = StartTime + 2
    /\ now >= StartTime + 9
    /\ currentSpeed = 10 /\ recorded = 10
    /\ hints = <<>> /\ override = Nil

(* C39: once Stop has returned (stopChan is closed), the loop begins no new
   control cycle and issues no further actuator command: neither when a tick
   is pending, nor when a cycle is in progress, nor when Run has not started. *)
C39_NoCycleAfterStop ==
    [][ stopChan = "closed"
          => /\ ~(pc \in {"new", "enable", "wait"} /\ pc' = "readCPU")
             /\ ~(pc = "enable" /\ pc' # "enable")
             /\ ~(pc = "ipmi" /\ pc' # "ipmi") ]_vars

(* C40: every hint listed in a status snapshot and the override shown in it
   are unexpired at the time of the snapshot, and the mode is "override" or
   "hinted" only on account of an unexpired override or hint. *)
C40_SnapshotUnexpired ==
    status # Nil =>
        LET s == status[1]
            live(e) == IsZero(e.expiresAt) \/ ~Before(e.expiresAt, s.timestamp)
        IN /\ \A src \in DOMAIN s.activeHints : live(s.activeHints[src])
           /\ s.override # Nil => live(s.override[1])
           /\ s.mode = "override" => (s.override # Nil /\ live(s.override[1]))
           /\ s.mode = "hinted"
                 => \E src \in DOMAIN s.activeHints : live(s.activeHints[src])

(* C40, as the code has it: a snapshot lists the hints and the override that
   the controller holds, and takes its mode from their presence; each of them
   was unexpired at the latest cleanExpired or has been set since, and one
   that has expired since stays listed until the next cycle evicts it. *)
C40_SnapshotAsOfLastEviction ==
    [][ (/\ status' # Nil /\ status' # status
         /\ status'[1].timestamp = now
         /\ status'[1].sharedReadings
         /\ status'[1].sharedHints = DOMAIN status'[1].activeHints
         /\ status'[1].sharedOverride = (status'[1].override # Nil)
         /\ pc' = pc /\ hints' = hints /\ override' = override)
          => LET s == status'[1]
                 kept(e) == IsZero(e.expiresAt) \/ ~Before(e.expiresAt, obs.evictedAt)
             IN /\ s.activeHints = hints
                /\ s.override = override
                /\ \A src \in DOMAIN s.activeHints : kept(s.activeHints[src])
                /\ s.override # Nil => kept(s.override[1])
                /\ s.mode = (IF override # Nil THEN "override"
                             ELSE IF DOMAIN hints # {} THEN "hinted" ELSE "auto") ]_vars

(* A snapshot taken after a cycle has evicted at time 2, and after a hint set
   then for one second has expired: the hint is listed and the mode is
   "hinted". *)
C40_Witness ==
    /\ status # Nil
    /\ obs.evictedAt = StartTime + 1
    /\ status[1].timestamp = StartTime + 2
    /\ DOMAIN status[1].activeHints = {"a"}
    /\ status[1].activeHints["a"].expiresAt = StartTime + 1
    /\ status[1].override = Nil
    /\ status[1].mode = "hinted"

====
